---- MODULE Spec2Model ----
(***************************************************************************)
(* A model of graderutils' IOTester (src/graderutils/iotester.py) and of   *)
(* the test-method runner it is driven by                                  *)
(* (src/graderutils/graderunittest.py).                                    *)
(*                                                                         *)
(* The module holds several specifications over one set of variables:      *)
(*   SpecPerm      _verify_permissions applied to drawn (name, policy)     *)
(*   SpecSettings  IOTester.__init__ followed by update_settings calls     *)
(*   SpecImport    the instrumented import, IOTester._iotester_import      *)
(*   SpecOpen      the instrumented open, IOTester._iotester_open          *)
(*   Spec          a session of test methods run through run_testmethod,   *)
(*                 each a two-sided comparison of IOTester                 *)
(*   SpecGrade     one execution of main.run over the configured test      *)
(*                 groups, with PointsTestRunner and the serialization     *)
(*   SpecCompare   the comparisons of IOTester applied to the data of two  *)
(*                 runs                                                    *)
(*   SpecIO        the captured output and the instrumented input of a run *)
(* A specification leaves the variables of the other parts at their        *)
(* initial values.                                                         *)
(***************************************************************************)
EXTENDS Integers, Sequences, FiniteSets, TLC

VARIABLES
    \* --- _verify_permissions(name, whitelist, blacklist) and its result
    name, whitelist, blacklist, allowed,
    \* --- IOTester.settings (the four permission lists), the IOTester object's
    \*     life (absent / ready / failed construction), the last settings call
    settings, tester, call, call_outcome,
    \* --- one call of the instrumented import: its arguments and surroundings,
    \*     and how it ended
    imp, imp_result,
    \* --- the files that exist, IOTester._created_files, and one call of the
    \*     instrumented open with how it ended
    fs, created_files, op, op_result,
    \* --- the grader process's globals that IOTester saves and restores, and
    \*     IOTester.previous
    sys_path, sys_modules, random_state, builtins, cwd, previous,
    \* --- remote.conn (none / open / closed) and the student process's built-ins
    conn, remote_builtins,
    \* --- the test method in progress: where it stands, run_testmethod's alarm
    \*     and conn_closed_earlier, the comparison's target and
    \*     prepare_exception, the two outcomes, test_case.iotester_data, what the
    \*     comparison raised, whether it compared, how the test method ended
    pc, alarm, conn_closed_earlier, target, prepare_exception,
    expected_data, data, iotester_data, raised, compared, test_result,
    \* --- history: tests finished, the last operation, what the last run's
    \*     target did, whether a submission call has exceeded its timeout over
    \*     an open connection (and had when this test began), whether this
    \*     test has called the connection
    tests_run, last_op, last_run, timed_out_with_conn, after_timeout, used_channel,
    \* --- one execution of main.run: the number of test groups of the
    \*     configuration and the group in progress, the dict of the points
    \*     decorator, the PointsTestResult of the group in progress, the group
    \*     results do_everything has gathered, main.run's grading_data, where
    \*     the execution stands, and (history) the test cases that have run
    config, group_index, graderutils_points, result, result_groups, grading_data,
    grade_pc, cases_ran,
    \* --- one comparison: the data of the two runs it compares, and whether
    \*     its assertions passed
    comparison, verdict,
    \* --- the standard streams of a run: the inputs given to _captured_output,
    \*     sys.stdin, IOTester._out, the last call on them and (history) the
    \*     calls of the instrumented input, the lines read, the calls made
    inputs, stdin, out, io, input_calls, lines_read, io_count

permVars     == <<name, whitelist, blacklist, allowed>>
settingsVars == <<settings, tester, call, call_outcome>>
importVars   == <<imp, imp_result>>
openVars     == <<fs, created_files, op, op_result>>
globalVars   == <<sys_path, sys_modules, random_state, builtins, cwd, previous>>
connVars     == <<conn, remote_builtins>>
testVars     == <<pc, alarm, conn_closed_earlier, target, prepare_exception,
                  expected_data, data, iotester_data, raised, compared, test_result>>
historyVars  == <<tests_run, last_op, last_run, timed_out_with_conn, after_timeout,
                  used_channel>>
gradeVars    == <<config, group_index, graderutils_points, result, result_groups,
                  grading_data, grade_pc, cases_ran>>
compareVars  == <<comparison, verdict>>
ioVars       == <<inputs, stdin, out, io, input_calls, lines_read, io_count>>
vars == <<permVars, settingsVars, importVars, openVars, globalVars, connVars,
          testVars, historyVars, gradeVars, compareVars, ioVars>>

-----------------------------------------------------------------------------
(* Values.  Python lists of names are modelled as sets: the code only asks *)
(* a list whether it is empty (bool(list)) and whether it holds a name     *)
(* (name in list).                                                         *)

\* The wildcard of a whitelist or blacklist.
STAR == "*"

\* The names a policy is asked about, and may hold.
PermNames == {"math", "os", "data.txt", STAR}

\* Python's None for a result that has not been computed.
None == "None"

-----------------------------------------------------------------------------
(* PermissionGate: _verify_permissions                                     *)

\* A permission check that forgets the blacklist's wildcard.
VerifyPermissionsNoStar(n, wl, bl) ==
    IF wl # {} THEN (STAR \in wl) \/ (n \in wl) ELSE n \notin bl

\* A permission check that allows every name.
VerifyPermissionsAllowsAll(n, wl, bl) == TRUE

\* def _verify_permissions(name, whitelist, blacklist)
VerifyPermissions(n, wl, bl) ==
    LET whitelist_enabled == wl # {}
    IN  IF whitelist_enabled
          THEN LET all_whitelisted == STAR \in wl
               IN  all_whitelisted \/ (n \in wl)
          ELSE LET all_blacklisted == STAR \in bl
               IN  (~all_blacklisted) /\ (n \notin bl)


\* Policies as IOTester keeps them: exactly one of the two lists is non-empty.
Policies ==
    {p \in [whitelist : SUBSET PermNames, blacklist : SUBSET PermNames] :
        (p.whitelist # {}) # (p.blacklist # {})}

\* "allowed" holds the values returned so far: none, or one.
PermParked ==
    /\ name = None
    /\ whitelist = {}
    /\ blacklist = {}
    /\ allowed = <<>>

\* The caller's arguments: any name, any policy with exactly one list in use.
PermInit ==
    /\ name \in PermNames
    /\ \E p \in Policies : whitelist = p.whitelist /\ blacklist = p.blacklist
    /\ allowed = <<>>

\* allowed = _verify_permissions(name, whitelist, blacklist): the function
\* returns its result and assigns nothing else.
VerifyPermissionsCall ==
    /\ allowed = <<>>
    /\ allowed' = <<VerifyPermissions(name, whitelist, blacklist)>>
    /\ UNCHANGED <<name, whitelist, blacklist>>

-----------------------------------------------------------------------------
(* ExecutionSettings: IOTester.__init__, update_settings, _verify_settings *)

SettingKeys == {"import_whitelist", "import_blacklist", "open_whitelist", "open_blacklist"}

\* DEFAULT_SETTINGS: a whitelist of standard modules ("math" stands for the
\* fourteen listed), no import blacklist, no open whitelist, every file
\* blacklisted.
DEFAULT_SETTINGS ==
    [import_whitelist |-> {"math"},
     import_blacklist |-> {},
     open_whitelist   |-> {},
     open_blacklist   |-> {STAR}]

\* The lists a caller passes for a setting.
ListChoices == {{}, {STAR}, {"math"}}

\* The settings dicts a caller passes: any subset of the four keys, each with
\* a list.  A key that is not given maps to {} in "val" and is never read.
SettingsArgs ==
    {a \in [given : SUBSET SettingKeys, val : [SettingKeys -> ListChoices]] :
        \A k \in SettingKeys \ a.given : a.val[k] = {}}

NoCall == [given |-> {}, val |-> [k \in SettingKeys |-> {}]]

\* update_settings, lines 764-771: both lists of a pair are cleared when
\* either of them is given.
Cleared(s, a) ==
    [k \in SettingKeys |->
        IF k \in {"import_whitelist", "import_blacklist"}
           /\ a.given \cap {"import_whitelist", "import_blacklist"} # {}
          THEN {}
        ELSE IF k \in {"open_whitelist", "open_blacklist"}
           /\ a.given \cap {"open_whitelist", "open_blacklist"} # {}
          THEN {}
        ELSE s[k]]

\* update_settings, line 775: self.settings.update(settings)
Updated(s, a) ==
    LET c == Cleared(s, a)
    IN  [k \in SettingKeys |-> IF k \in a.given THEN a.val[k] ELSE c[k]]

\* _verify_settings, lines 804-822: TRUE when no assertion fails.  The values
\* drawn are lists, so the isinstance assertions (780-803) pass.
VerifySettings(s) ==
    /\ (s.import_whitelist # {}) \/ (s.import_blacklist # {})
    /\ (s.open_whitelist # {}) \/ (s.open_blacklist # {})
    /\ ((s.import_whitelist # {}) /\ (s.import_blacklist # {})) = FALSE
    /\ ((s.open_whitelist # {}) /\ (s.open_blacklist # {})) = FALSE

SettingsParked ==
    /\ settings = DEFAULT_SETTINGS
    /\ tester = "ready"
    /\ call = NoCall
    /\ call_outcome = None

\* Before IOTester(settings): line 753 has copied the defaults.
SettingsInit ==
    /\ settings = DEFAULT_SETTINGS
    /\ tester = "absent"
    /\ call = NoCall
    /\ call_outcome = None

\* IOTester.__init__(settings): update_settings on the defaults.  An assertion
\* that fails leaves the constructor by an exception: no object comes to be.
IOTesterInit ==
    /\ tester = "absent"
    /\ \E a \in SettingsArgs :
        /\ call' = a
        /\ settings' = Updated(settings, a)
        /\ IF VerifySettings(Updated(settings, a))
             THEN tester' = "ready" /\ call_outcome' = "returned"
             ELSE tester' = "failed" /\ call_outcome' = "raised"

\* update_settings(settings) on a constructed IOTester: the dict is updated
\* first and verified after, so a failed assertion leaves the update in place.
UpdateSettings ==
    /\ tester = "ready"
    /\ \E a \in SettingsArgs :
        /\ call' = a
        /\ settings' = Updated(settings, a)
        /\ call_outcome' =
             IF VerifySettings(Updated(settings, a)) THEN "returned" ELSE "raised"
    /\ UNCHANGED tester

-----------------------------------------------------------------------------
(* Instrumented import: IOTester._iotester_import                          *)

\* The .py files of the submission directory and of the model directory
\* (os.listdir(student_path), os.listdir(model_path)), without the suffix.
StudentModules == {"solution", "helper"}
ModelModules == {"solution", "reference"}

\* restricted_modules, lines 1037-1041
RestrictedModules == {"rpyc.core.protocol"} \cup StudentModules \cup ModelModules

\* The modules that call import: submission or model code, the student
\* process's rpyc protocol module, a whitelisted library, the test module.
Importers == {"solution", "rpyc.core.protocol", "math", "grader_tests"}

\* The names they import, split at the dots (name.split('.')).
ImportNames ==
    {<<"math">>, <<"os">>, <<"os", "path">>, <<"xml", "dom">>, <<"_io">>,
     <<"graderutils">>, <<"helper">>, <<"nosuch">>}

\* The import policies a session runs under.
ImportPolicies ==
    {[whitelist |-> {"math"}, blacklist |-> {}],
     [whitelist |-> {STAR}, blacklist |-> {}],
     [whitelist |-> {}, blacklist |-> {"os"}],
     [whitelist |-> {}, blacklist |-> {STAR}]}

\* self._used_model_modules as prepare() builds it: the names given and
\* their "_nomain" twins.
UsedModelModuleChoices == {{}, {<<"helper">>, <<"helper_nomain">>}}

\* os.path.exists(os.path.abspath(module_name + ".py")): a file of the
\* current working directory.
ModulePathExists(module_name, dir) ==
    IF dir = "model" THEN module_name \in ModelModules
                     ELSE module_name \in StudentModules

\* allowed_to_import, lines 1006-1019
AllowedToImport(module_name, s) ==
    IF module_name = "graderutils"
      THEN FALSE
      ELSE \/ module_name = "_io"
           \/ VerifyPermissions(module_name, s.import_whitelist, s.import_blacklist)

\* The import machinery a real import goes through, lines 1024-1035 and
\* 1075-1077: the student process's importlib for the rpyc protocol module
\* when a connection exists, the grader's own otherwise.
ImportVia(i) ==
    IF i.remote_conn /\ i.importer = "rpyc.core.protocol" THEN "remote" ELSE "local"

\* _iotester_import, lines 994-1077: how the call i ends.
\*   real_import        importlib.__import__ performed the import
\*   model_module       the model's version of the module was loaded
\*   GraderImportError  the import was refused
\*   GraderUtilsError   os.listdir failed
IotesterImport(i) ==
    LET module_name == Head(i.name)
        allowed_to_import == AllowedToImport(module_name, i.settings)
        not_allowed_to_import ==
            /\ i.importer \in RestrictedModules
            /\ ~allowed_to_import
            /\ module_name \notin RestrictedModules
    IN  IF allowed_to_import /\ ~ModulePathExists(module_name, i.cwd)
          THEN [kind |-> "real_import", via |-> ImportVia(i)]
        ELSE IF ~i.listdir_ok
          THEN [kind |-> "GraderUtilsError", via |-> None]
        ELSE IF i.name \in i.used_model_modules
          THEN [kind |-> "model_module", via |-> "local"]
        ELSE IF not_allowed_to_import /\ i.found
          THEN [kind |-> "GraderImportError", via |-> None]
        ELSE [kind |-> "real_import", via |-> ImportVia(i)]

NoImport ==
    [name |-> <<None>>, importer |-> None, cwd |-> None, settings |-> DEFAULT_SETTINGS,
     used_model_modules |-> {}, found |-> FALSE, listdir_ok |-> FALSE,
     remote_conn |-> FALSE]

NoImportResult == [kind |-> None, via |-> None]

ImportParked ==
    /\ imp = NoImport
    /\ imp_result = NoImportResult

\* The settings of an IOTester whose import policy is p.
WithImportPolicy(p) ==
    [DEFAULT_SETTINGS EXCEPT !.import_whitelist = p.whitelist,
                             !.import_blacklist = p.blacklist]

\* importlib.find_loader(name) is not None, lines 1065-1069, can be so for the
\* name n.  find_loader looks a name up in sys.modules and then, for a dotted
\* name too, as one top-level name on sys.path: it finds a module of the
\* standard library, finds os.path (loaded with os), finds a submodule such
\* as xml.dom only once that is loaded, and never a module that is nowhere.
CanBeFound(n, found) ==
    IF n = <<"nosuch">> THEN ~found
    ELSE IF n \in {<<"xml", "dom">>, <<"helper">>} THEN TRUE
    ELSE found

\* One import statement about to run under the instrumented import: who
\* imports what, from which directory, under which policy; whether
\* find_loader finds the name, whether the directories can be listed, whether
\* a remote connection exists.
ImportInit ==
    /\ imp \in {i \in [name : ImportNames,
                        importer : Importers,
                        cwd : {"student", "model"},
                        settings : {WithImportPolicy(p) : p \in ImportPolicies},
                        used_model_modules : UsedModelModuleChoices,
                        found : BOOLEAN,
                        listdir_ok : BOOLEAN,
                        remote_conn : BOOLEAN] : CanBeFound(i.name, i.found)}
    /\ imp_result = NoImportResult

IotesterImportCall ==
    /\ imp_result = NoImportResult
    /\ imp # NoImport
    /\ imp_result' = IotesterImport(imp)
    /\ UNCHANGED imp

-----------------------------------------------------------------------------
(* Instrumented open: IOTester._iotester_open                              *)

\* student_path, model_path, exercise_path, generated_path
Dirs == {"student", "model", "exercise", "generated"}

Path(d, n) == [dir |-> d, name |-> n]

\* The files that exist when a session starts: the submission and the model
\* solution, an exercise asset, a generated fixture.
InitialFiles ==
    {Path("student", "solution.py"), Path("model", "solution.py"),
     Path("exercise", "asset.txt"), Path("generated", "gen.txt")}

\* The paths the modelled programs open.
OpenTargets ==
    InitialFiles \cup
    {Path("student", "out.txt"), Path("student", "asset.txt"), Path("student", "gen.txt")}

\* Who calls open: the submission (from its file or, in the student process,
\* through rpyc), the model solution, the test module in the exercise directory.
\* "dir" is the directory of the caller's file.
Openers ==
    {[name |-> "solution", dir |-> "student"],
     [name |-> "solution", dir |-> "model"],
     [name |-> "rpyc.core.protocol", dir |-> "rpyc"],
     [name |-> "grader_tests", dir |-> "exercise"]}

\* Mode strings, one character per element.  The last is not a mode.
Modes ==
    {<<"r">>, <<"w">>, <<"a">>, <<"r", "+">>, <<"w", "+", "b">>, <<"z">>}

\* read_modes, line 1112
read_modes == {<<"r">>, <<"r", "t">>, <<"r", "b">>}

\* write_modes, lines 1113-1118
write_modes ==
    {<<"x">>, <<"x", "t">>, <<"x", "b">>, <<"x", "+">>, <<"x", "t", "+">>, <<"x", "b", "+">>,
     <<"w">>, <<"w", "t">>, <<"w", "b">>, <<"w", "+">>, <<"w", "t", "+">>, <<"w", "b", "+">>,
     <<"a">>, <<"a", "t">>, <<"a", "b">>, <<"a", "+">>, <<"a", "t", "+">>, <<"a", "b", "+">>,
     <<"r", "+">>, <<"r", "t", "+">>, <<"r", "b", "+">>}

Chars(m) == {m[i] : i \in 1..Len(m)}

\* The mode strings the built-in open accepts: characters of "rwxabt+", none
\* twice, exactly one of r, w, x, a, and not both b and t.
ValidMode(m) ==
    /\ Len(m) > 0
    /\ Chars(m) \subseteq {"r", "w", "x", "a", "b", "t", "+"}
    /\ Cardinality(Chars(m)) = Len(m)
    /\ Cardinality(Chars(m) \cap {"r", "w", "x", "a"}) = 1
    /\ ~({"b", "t"} \subseteq Chars(m))

\* The modes whose stream can change the file.
Writable(m) == Chars(m) \cap {"w", "x", "a", "+"} # {}

\* The built-in open of path p with mode m over the files f: what it raises or
\* the stream it returns, and the files after it.
BuiltinOpen(f, p, m) ==
    IF ~ValidMode(m)
      THEN [kind |-> "ValueError", path |-> p, writable |-> FALSE, fs |-> f]
    ELSE IF "r" \in Chars(m) /\ p \notin f
      THEN [kind |-> "FileNotFoundError", path |-> p, writable |-> FALSE, fs |-> f]
    ELSE IF "x" \in Chars(m) /\ p \in f
      THEN [kind |-> "FileExistsError", path |-> p, writable |-> FALSE, fs |-> f]
    ELSE [kind |-> "stream", path |-> p, writable |-> Writable(m), fs |-> f \cup {p}]

\* mode in write_modes
InWriteModes(m) == m \in write_modes

\* opener_dir, lines 1099-1102
OpenerDir(o) == IF o.name = "rpyc.core.protocol" THEN "student" ELSE o.dir

\* The search of lines 1131-1143: the file of that name in exercise_path,
\* else in generated_path, else nothing.
FoundFile(f, n) ==
    IF Path("exercise", n) \in f THEN Path("exercise", n)
    ELSE IF Path("generated", n) \in f THEN Path("generated", n)
    ELSE [dir |-> None, name |-> n]

Raise(kind, msg, f, c) ==
    [kind |-> kind, msg |-> msg, path |-> [dir |-> None, name |-> None],
     writable |-> FALSE, fs |-> f, created_files |-> c]

Returned(b, c) ==
    [kind |-> b.kind, msg |-> None, path |-> b.path, writable |-> b.writable,
     fs |-> b.fs, created_files |-> c]

\* _iotester_open, lines 1080-1184, called by o for path p with mode m under
\* settings s over the files f and the created files c.
IotesterOpen(o, p, m, s, f, c, listdir_ok) ==
    LET opener_dir == OpenerDir(o)
        restricted == o.name \in RestrictedModules
        permitted == VerifyPermissions(p.name, s.open_whitelist, s.open_blacklist)
        direct == BuiltinOpen(f, p, m)
        found_file == FoundFile(f, p.name)
    IN  IF ~listdir_ok
          THEN Raise("GraderUtilsError", None, f, c)
        ELSE IF (p.dir = opener_dir /\ ~InWriteModes(m)) \/ ~restricted
          THEN IF direct.kind # "FileNotFoundError"
                 THEN Returned(direct, c)
               ELSE IF found_file.dir = None
                 THEN Raise("FileNotFoundError", None, f, c)
               ELSE IF found_file.dir = "generated"
                 THEN Returned(BuiltinOpen(f, found_file, m), c)
               ELSE IF restricted
                 THEN IF permitted
                        THEN Returned(BuiltinOpen(f, found_file, m), c)
                        ELSE Raise("GraderOpenError", "read", f, c)
               ELSE Returned(BuiltinOpen(f, found_file, m), c)
        ELSE IF p.dir = opener_dir /\ p \notin f /\ InWriteModes(m)
          THEN IF direct.kind = "stream"
                 THEN Returned(direct, c \cup {p})
                 ELSE Returned(direct, c)
        ELSE IF p.dir = opener_dir /\ p \in f /\ InWriteModes(m)
          THEN IF p \in c
                 THEN Returned(direct, c)
                 ELSE Raise("GraderOpenError", "write", f, c)
        ELSE IF InWriteModes(m)
          THEN Raise("GraderOpenError", "write", f, c)
        ELSE IF p.dir = "generated" \/ permitted
          THEN Returned(direct, c)
        ELSE IF m \in read_modes
          THEN Raise("GraderOpenError", "read", f, c)
        ELSE Raise("GraderOpenError", "mode", f, c)

\* The open policies a session runs under.
OpenPolicies ==
    {[whitelist |-> {}, blacklist |-> {STAR}],
     [whitelist |-> {"asset.txt", "out.txt"}, blacklist |-> {}],
     [whitelist |-> {}, blacklist |-> {"asset.txt"}]}

WithOpenPolicy(p) ==
    [DEFAULT_SETTINGS EXCEPT !.open_whitelist = p.whitelist,
                             !.open_blacklist = p.blacklist]

NoOpen ==
    [opener |-> [name |-> None, dir |-> None], path |-> [dir |-> None, name |-> None],
     mode |-> <<>>, existed |-> FALSE, was_created |-> FALSE, listdir_ok |-> FALSE]

NoOpenResult == Raise(None, None, {}, {})

OpenParked ==
    /\ fs = InitialFiles
    /\ created_files = {}
    /\ op = NoOpen
    /\ op_result = NoOpenResult

\* A session about to run programs: the initial files, nothing created yet;
\* the directories can be listed (os.listdir) in this session, or they cannot.
OpenInit ==
    /\ fs = InitialFiles
    /\ created_files = {}
    /\ \E ok \in BOOLEAN : op = [NoOpen EXCEPT !.listdir_ok = ok]
    /\ op_result = NoOpenResult

\* One call open(file, mode) through the instrumented open.  "existed" and
\* "was_created" record whether the path existed, and was in _created_files,
\* when the call was made.
IotesterOpenCall ==
    \E o \in Openers, p \in OpenTargets, m \in Modes :
        LET r == IotesterOpen(o, p, m, settings, fs, created_files, op.listdir_ok)
        IN  /\ op' = [opener |-> o, path |-> p, mode |-> m, existed |-> p \in fs,
                      was_created |-> p \in created_files, listdir_ok |-> op.listdir_ok]
            /\ op_result' = r
            /\ fs' = r.fs
            /\ created_files' = r.created_files

-----------------------------------------------------------------------------
(* StateSnapshot: IOTester._save and IOTester.restore                      *)

\* The random generator has RandMod states; a draw moves to the next one.
RandMod == 4

\* The most random draws one program run makes.
MaxDraws == 2

\* The most entries sys.path holds.
MaxPath == 3

\* The most test methods of a session.
MaxTests == 2

\* random.randrange(sys.maxsize): the value drawn in state st and the state
\* after the draw.
Randrange(st) == [value |-> (st + 2) % RandMod, state |-> (st + 1) % RandMod]

\* random.seed(seed): the state a seed leads to.
SeedState(seed) == (seed + 1) % RandMod

\* The built-in functions as the interpreter starts with them, and with the
\* three IOTester hooks installed.
OriginalBuiltins == [import |-> "builtin", open |-> "builtin", input |-> "builtin"]
IotesterBuiltins == [import |-> "iotester", open |-> "iotester", input |-> "iotester"]

\* The process-wide state restore() acts on, as one record.
Globals ==
    [sys_path |-> sys_path, sys_modules |-> sys_modules, random_state |-> random_state,
     builtins |-> builtins, cwd |-> cwd, conn |-> conn,
     remote_builtins |-> remote_builtins, fs |-> fs, created_files |-> created_files]

\* _save, lines 834-842: the grader-side part of self.previous.
Save(g) ==
    [random_state |-> g.random_state, sys_path |-> g.sys_path,
     sys_modules |-> g.sys_modules, remote_builtin_input |-> g.remote_builtins.input]

\* A restore that leaves the modules imported since the capture loaded.
RestoreKeepsModules(g, prev, clean_up_files, remote_responds) ==
    [g EXCEPT !.builtins = OriginalBuiltins,
              !.sys_path = prev.sys_path,
              !.random_state = prev.random_state,
              !.cwd = "student",
              !.fs = IF clean_up_files THEN @ \ g.created_files ELSE @,
              !.created_files = IF clean_up_files THEN {} ELSE @]

\* A restore that cleans up the created files whatever clean_up_files is.
RestoreAlwaysCleans(g, prev, clean_up_files, remote_responds) ==
    [g EXCEPT !.sys_path = prev.sys_path,
              !.sys_modules = @ \cap prev.sys_modules,
              !.builtins = OriginalBuiltins,
              !.random_state = prev.random_state,
              !.cwd = "student",
              !.fs = @ \ g.created_files,
              !.created_files = {}]

\* A restore that leaves the random number generator as the run left it.
RestoreKeepsRandomState(g, prev, clean_up_files, remote_responds) ==
    [g EXCEPT !.sys_path = prev.sys_path,
              !.sys_modules = @ \cap prev.sys_modules,
              !.builtins = OriginalBuiltins,
              !.cwd = "student",
              !.fs = IF clean_up_files THEN @ \ g.created_files ELSE @,
              !.created_files = IF clean_up_files THEN {} ELSE @]

\* restore(clean_up_files), lines 851-906, on the globals g with the snapshot
\* prev.  remote_responds: the student process answers the calls of lines
\* 873-890; when it does not, the first of them ends in TimeoutError and the
\* connection is closed (line 894).
Restore(g, prev, clean_up_files, remote_responds) ==
    LET local == [g EXCEPT !.builtins = OriginalBuiltins,
                           !.sys_path = prev.sys_path,
                           !.sys_modules = @ \cap prev.sys_modules]
        remote ==
            IF g.conn = "open"
              THEN IF remote_responds
                     THEN [local EXCEPT !.remote_builtins =
                              [@ EXCEPT !.import = "builtin",
                                        !.input = prev.remote_builtin_input]]
                     ELSE [local EXCEPT !.conn = "closed"]
              ELSE local
        rest == [remote EXCEPT !.random_state = prev.random_state, !.cwd = "student"]
    IN  IF clean_up_files
          THEN [rest EXCEPT !.fs = @ \ g.created_files, !.created_files = {}]
          ELSE rest

-----------------------------------------------------------------------------
(* ExceptionClassifier: IOTester._raise_exception_with_feedback            *)

\* Exceptions are named by class; where the code reads str(exception), the
\* message follows in parentheses.
ExceptionName(e) ==
    IF e \in {"TimeoutError(result expired)"} THEN "TimeoutError"
    ELSE IF e \in {"EOFError([Errno 32] Broken pipe)", "EOFError(stream has been closed)"}
      THEN "EOFError"
    ELSE IF e \in {"ValueError(source code string cannot contain null bytes)"}
      THEN "ValueError"
    ELSE e

\* The branches of lines 1388-1742 that set iotester_data["hideTraceback"] = True.
HidingBranch(e) ==
    \/ ExceptionName(e) \in
         {"GraderConnClosedError", "GraderImportError", "GraderOpenError",
          "GraderTimeoutError", "GraderIOError", "FunctionNotFoundError",
          "ClassNotFoundError", "ModuleNotFoundError", "FileNotFoundError", "EOFError",
          "MainCallNotFoundError", "SystemExit", "KeyboardInterrupt", "UnicodeDecodeError"}
    \/ e = "ValueError(source code string cannot contain null bytes)"

\* test_case.iotester_data after _setup: an empty dict.
\* hideTraceback is "unset" while the key is absent.
EmptyData == [feedback |-> FALSE, hideTraceback |-> "unset", warning |-> FALSE]

\* A classifier that leaves out lines 1743-1746.
ClassifyNoModelCase(d, e, model) ==
    [d EXCEPT !.feedback = TRUE,
              !.hideTraceback = IF HidingBranch(e) THEN "True" ELSE @]

\* _raise_exception_with_feedback(exception, show_diff, model), lines 1380-1746:
\* iotester_data when it raises.
Classify(d, e, model) ==
    LET branch == [d EXCEPT !.feedback = TRUE,
                            !.hideTraceback = IF HidingBranch(e) THEN "True" ELSE @]
    IN  IF model
          THEN [branch EXCEPT !.warning = TRUE, !.hideTraceback = "False"]
          ELSE branch

-----------------------------------------------------------------------------
(* The runner: IOTester._run_program                                      *)

\* What a tested program is: a prog function, the module alone (no
\* func_name), a function of the module, a class constructor ("X.__init__").
Targets == {"prog", "module", "func", "init"}

\* The exceptions the modelled targets and hooks raise.
RunExceptions ==
    {"GraderImportError", "GraderOpenError", "GraderIOError", "SystemExit",
     "KeyboardInterrupt", "ZeroDivisionError", "TimeoutError(result expired)",
     "EOFError([Errno 32] Broken pipe)"}

\* What the target does in one run: the result_or_timeout call at which the
\* run ends ("import": the module-level code, "call": the function or
\* constructor, "prog"), and how: it returns ("ok"), the alarm fires
\* ("alarm"), or an exception is raised; the random draws it made, whether it
\* created out.txt in its directory, and, for a call the alarm abandoned,
\* whether the student process is still busy when restore() calls it.
Behaviours(tgt) ==
    {b \in [stage : {"import", "call", "prog"},
            event : {"ok", "alarm"} \cup RunExceptions,
            draws : 0..MaxDraws,
            creates : BOOLEAN,
            still_busy : BOOLEAN] :
        /\ (tgt = "prog") = (b.stage = "prog")
        /\ tgt = "module" => b.stage = "import"
        /\ (tgt \in {"func", "init"} /\ b.event = "ok") => b.stage = "call"
        /\ b.still_busy => b.event = "alarm"}

\* The dict _run_program returns (its "exception"), or that no run returned.
NoData == [ran |-> FALSE, exception |-> None]
Outcome(e) == [ran |-> TRUE, exception |-> e]

\* What a call over a closed connection raises, graderunittest.py line 230.
RemoteCallOnClosed == "EOFError(stream has been closed)"

\* _override_builtin_import/_open/_input(model), lines 1215-1245: the hooks
\* go into the grader's built-ins for a model run or without a connection,
\* into the student process's over an open connection.
Override(g, model) ==
    IF g.conn = "none" \/ model
      THEN [g EXCEPT !.builtins = IotesterBuiltins]
    ELSE IF g.conn = "open"
      THEN [g EXCEPT !.remote_builtins = IotesterBuiltins]
    ELSE g

\* ... and raise GraderConnClosedError over a closed one.
OverrideRaises(g, model) == ~(g.conn = "none" \/ model) /\ g.conn # "open"

\* Lines 1300-1303, 1308-1311, 1325-1326, 1335-1338: the paths on which a
\* fired alarm closes an open connection of a submission run.  The
\* constructor call (1325-1326) does not.
ClosesOnAlarm(tgt, stage) == ~(tgt = "init" /\ stage = "call")

\* A run that drops the exception of its target.
StoredExceptionNone(e, g, model) == None

\* The except clauses of lines 1343-1363: the exception stored for a raised e.
StoredException(e, g, model) ==
    IF ExceptionName(e) = "TimeoutError"
      THEN IF g.conn # "none" /\ e = "TimeoutError(result expired)" /\ ~model
             THEN "GraderTimeoutError"
             ELSE e
    ELSE IF ExceptionName(e) = "EOFError"
      THEN IF /\ g.conn # "none"
              /\ e \in {"EOFError([Errno 32] Broken pipe)", "EOFError(stream has been closed)"}
              /\ ~model
             THEN "KeyboardInterrupt"
             ELSE e
    ELSE e

\* ... and whether the clause closes the connection (1349, 1359).
ClosesOnException(e, g, model) ==
    /\ g.conn # "none"
    /\ ~model
    /\ e \in {"TimeoutError(result expired)", "EOFError([Errno 32] Broken pipe)",
              "EOFError(stream has been closed)"}

\* The file a run creates through the instrumented open: out.txt in its own
\* directory, when new or created earlier in the session.
CreatedBy(g, model, b) ==
    LET p == Path(IF model THEN "model" ELSE "student", "out.txt")
    IN  IF b.creates /\ (p \notin g.fs \/ p \in g.created_files) THEN {p} ELSE {}

\* _run_program(func_name, args, kwargs, inputs, prog, model), lines 1262-1377,
\* for a target tgt behaving as b, from the globals g:
\*   g           the globals when it returns or raises
\*   data        the dict returned (NoData when it raises)
\*   propagated  the exception it raises (None when it returns)
\*   timed       result_or_timeout was called (the alarm is now off)
\*   sub_timeout a submission call exceeded its timeout over an open connection
\*   seed        the seed of line 1279
RunProgram(g, prev, tgt, model, b) ==
    LET drawn == Randrange(g.random_state)
        seeded == [g EXCEPT !.random_state = SeedState(drawn.value)]
        local == g.conn = "none" \/ model
        moved == [seeded EXCEPT !.cwd = IF model THEN "model" ELSE "student"]
        hooked == Override(moved, model)
        loaded == IF b.stage = "import" /\ b.event # "ok" THEN {} ELSE {"solution_nomain"}
        executed ==
            [hooked EXCEPT
                !.sys_path = IF model THEN <<"model">> \o @ ELSE @,
                !.sys_modules = @ \cup loaded,
                !.random_state = IF local THEN (@ + b.draws) % RandMod ELSE @,
                !.fs = @ \cup CreatedBy(hooked, model, b),
                !.created_files = @ \cup CreatedBy(hooked, model, b)]
        closes ==
            /\ g.conn = "open"
            /\ ~model
            /\ \/ b.event = "alarm" /\ ClosesOnAlarm(tgt, b.stage)
               \/ b.event \in RunExceptions /\ ClosesOnException(b.event, g, model)
        after == IF closes THEN [executed EXCEPT !.conn = "closed"] ELSE executed
        exception ==
            IF b.event = "ok" THEN None
            ELSE IF b.event = "alarm" THEN "GraderTimeoutError"
            ELSE StoredException(b.event, g, model)
        remote_responds == ~(b.still_busy /\ b.event = "alarm" /\ ~model)
    IN  IF g.conn = "closed"
          THEN [g |-> seeded, data |-> NoData, propagated |-> RemoteCallOnClosed,
                timed |-> FALSE, sub_timeout |-> FALSE, seed |-> drawn.value]
        ELSE IF OverrideRaises(moved, model)
          THEN [g |-> Restore(moved, prev, FALSE, TRUE),
                data |-> Outcome("GraderConnClosedError"), propagated |-> None,
                timed |-> FALSE, sub_timeout |-> FALSE, seed |-> drawn.value]
        ELSE [g |-> Restore(after, prev, FALSE, remote_responds),
              data |-> Outcome(exception), propagated |-> None,
              timed |-> TRUE,
              sub_timeout |-> /\ g.conn = "open"
                              /\ ~model
                              /\ b.event \in {"alarm", "TimeoutError(result expired)"},
              seed |-> drawn.value]

-----------------------------------------------------------------------------
(* A session: test methods run one after the other by run_testmethod, each *)
(* a two-sided comparison of IOTester or a plain unittest body             *)

PrepareExceptions == {None, "SyntaxError", "UnicodeDecodeError"}

NoRun == [model |-> FALSE, stage |-> None, event |-> None, conn |-> None, created |-> {},
          seed |-> -1, model_seed |-> -1]

SetGlobals(g) ==
    /\ sys_path' = g.sys_path
    /\ sys_modules' = g.sys_modules
    /\ random_state' = g.random_state
    /\ builtins' = g.builtins
    /\ cwd' = g.cwd
    /\ conn' = g.conn
    /\ remote_builtins' = g.remote_builtins
    /\ fs' = g.fs
    /\ created_files' = g.created_files

SessionParked ==
    /\ sys_path = <<"lib">>
    /\ sys_modules = {"random"}
    /\ random_state = 0
    /\ builtins = OriginalBuiltins
    /\ cwd = "student"
    /\ conn = "none"
    /\ remote_builtins = OriginalBuiltins
    /\ previous = Save(Globals)
    /\ pc = "idle"
    /\ alarm = FALSE
    /\ conn_closed_earlier = FALSE
    /\ target = None
    /\ prepare_exception = None
    /\ expected_data = NoData
    /\ data = NoData
    /\ iotester_data = EmptyData
    /\ raised = None
    /\ compared = FALSE
    /\ test_result = None
    /\ tests_run = 0
    /\ last_op = None
    /\ last_run = NoRun
    /\ timed_out_with_conn = FALSE
    /\ after_timeout = FALSE
    /\ used_channel = FALSE

\* After IOTester(): line 760 has saved the globals.  The grader runs the
\* submission in its own process (no connection) or in a student process
\* over an open connection.
SessionInit ==
    /\ sys_path = <<"lib">>
    /\ sys_modules = {"random"}
    /\ random_state \in 0..(RandMod - 1)
    /\ builtins = OriginalBuiltins
    /\ cwd = "student"
    /\ conn \in {"none", "open"}
    /\ remote_builtins = OriginalBuiltins
    /\ previous = Save(Globals)
    /\ pc = "idle"
    /\ alarm = FALSE
    /\ conn_closed_earlier = FALSE
    /\ target = None
    /\ prepare_exception = None
    /\ expected_data = NoData
    /\ data = NoData
    /\ iotester_data = EmptyData
    /\ raised = None
    /\ compared = FALSE
    /\ test_result = None
    /\ tests_run = 0
    /\ last_op = None
    /\ last_run = NoRun
    /\ timed_out_with_conn = FALSE
    /\ after_timeout = FALSE
    /\ used_channel = FALSE

\* run_testmethod, lines 202-214, and the test's setUp calling prepare(): the
\* alarm is armed, conn_closed_earlier read, the target and the
\* prepare_exception of this test fixed.
StartTest ==
    /\ pc = "idle"
    /\ tests_run < MaxTests
    /\ pc' = "in_test"
    /\ alarm' = TRUE
    /\ conn_closed_earlier' = (conn = "closed")
    /\ target' \in Targets
    /\ prepare_exception' \in PrepareExceptions
    /\ expected_data' = NoData
    /\ data' = NoData
    /\ iotester_data' = EmptyData
    /\ raised' = None
    /\ compared' = FALSE
    /\ test_result' = None
    /\ after_timeout' = timed_out_with_conn
    /\ used_channel' = FALSE
    /\ last_op' = "start"
    /\ last_run' = NoRun
    /\ UNCHANGED <<tests_run, timed_out_with_conn>>
    /\ UNCHANGED <<globalVars, connVars, fs, created_files>>

\* The head of a two-sided comparison (text_test lines 1768-1779, and the same
\* lines of numbers_test, return_value_test, complete_output_test,
\* created_file_test, random_state_test): _setup, then the prepare_exception
\* is classified and raised if there is one.
BeginComparison ==
    /\ pc = "in_test"
    /\ SetGlobals(Restore(Globals, previous, TRUE, TRUE))
    /\ IF prepare_exception # None
         THEN /\ iotester_data' = Classify(EmptyData, prepare_exception, FALSE)
              /\ raised' = prepare_exception
              /\ pc' = "raised"
         ELSE /\ iotester_data' = EmptyData
              /\ raised' = None
              /\ pc' = "ready"
    /\ used_channel' = (used_channel \/ conn = "open")
    /\ last_op' = "setup"
    /\ UNCHANGED <<previous, alarm, conn_closed_earlier, target, prepare_exception,
                   expected_data, data, compared, test_result>>
    /\ UNCHANGED <<tests_run, last_run, timed_out_with_conn, after_timeout>>

\* What a _run_program call leaves behind, for either side.
AfterRun(r, model, b) ==
    /\ SetGlobals(r.g)
    /\ alarm' = (alarm /\ ~r.timed)
    /\ used_channel' = (used_channel \/ conn # "none")
    /\ timed_out_with_conn' = (timed_out_with_conn \/ r.sub_timeout)
    /\ last_op' = IF r.propagated # None THEN "run_raised" ELSE "run_returned"
    /\ last_run' = [model |-> model, stage |-> b.stage, event |-> b.event, conn |-> conn,
                    created |-> IF r.timed THEN CreatedBy(Globals, model, b) ELSE {},
                    seed |-> r.seed,
                    model_seed |-> IF model THEN r.seed ELSE last_run.seed]
    /\ UNCHANGED <<previous, conn_closed_earlier, target, prepare_exception,
                   iotester_data, compared, test_result, tests_run, after_timeout>>

\* expected_data = self._run_program(..., model=True), line 1780
RunModel ==
    /\ pc = "ready"
    /\ \E b \in Behaviours(target) :
        LET r == RunProgram(Globals, previous, target, TRUE, b)
        IN  /\ AfterRun(r, TRUE, b)
            /\ expected_data' = r.data
            /\ raised' = r.propagated
            /\ pc' = IF r.propagated # None THEN "raised" ELSE "model_done"
    /\ UNCHANGED data

\* data = self._run_program(..., model=False), line 1782
RunSubmission ==
    /\ pc = "model_done"
    /\ \E b \in Behaviours(target) :
        LET r == RunProgram(Globals, previous, target, FALSE, b)
        IN  /\ AfterRun(r, FALSE, b)
            /\ data' = r.data
            /\ raised' = r.propagated
            /\ pc' = IF r.propagated # None THEN "raised" ELSE "sub_done"
    /\ UNCHANGED expected_data

\* A classification that does not look at the model's exception.
WhichExceptionIgnoresModel(e_model, e_sub) ==
    IF e_sub # None THEN [exception |-> e_sub, model |-> FALSE]
    ELSE [exception |-> None, model |-> FALSE]

\* A classification that looks at the submission's exception first.
WhichExceptionSubmissionFirst(e_model, e_sub) ==
    IF e_sub # None THEN [exception |-> e_sub, model |-> FALSE]
    ELSE IF e_model # None THEN [exception |-> e_model, model |-> TRUE]
    ELSE [exception |-> None, model |-> FALSE]

\* Lines 1785-1788: the exception a comparison classifies, the model's first.
WhichException(e_model, e_sub) ==
    IF e_model # None THEN [exception |-> e_model, model |-> TRUE]
    ELSE IF e_sub # None THEN [exception |-> e_sub, model |-> FALSE]
    ELSE [exception |-> None, model |-> FALSE]

\* The tail of a comparison, lines 1784-1832: an exception of either run is
\* classified and raised; without one the outputs or values are compared, and
\* the assertion passes or raises AssertionError.
FinishComparison ==
    /\ pc = "sub_done"
    /\ LET w == WhichException(expected_data.exception, data.exception)
       IN  IF w.exception # None
             THEN /\ iotester_data' = Classify(iotester_data, w.exception, w.model)
                  /\ raised' = w.exception
                  /\ compared' = FALSE
                  /\ pc' = "raised"
             ELSE /\ iotester_data' = [iotester_data EXCEPT !.feedback = TRUE]
                  /\ compared' = TRUE
                  /\ \E equal \in BOOLEAN :
                        IF equal THEN raised' = None /\ pc' = "returned"
                                 ELSE raised' = "AssertionError" /\ pc' = "raised"
    /\ last_op' = "finish"
    /\ UNCHANGED <<globalVars, connVars, fs, created_files>>
    /\ UNCHANGED <<alarm, conn_closed_earlier, target, prepare_exception, expected_data,
                   data, test_result>>
    /\ UNCHANGED <<tests_run, last_run, timed_out_with_conn, after_timeout, used_channel>>

\* A test method that does not use IOTester
\* (examples/simple/grader_tests.py, test1_negative_integers): what its body
\* and the code it calls may leave behind are modules imported, random
\* numbers drawn and a longer sys.path (the _save docstring, lines 831-832);
\* it passes or fails an assertion.
PlainTestBody ==
    /\ pc = "in_test"
    /\ \E m \in SUBSET {"primes"}, d \in 0..MaxDraws, ins \in BOOLEAN, ok \in BOOLEAN :
        /\ sys_modules' = sys_modules \cup m
        /\ random_state' = (random_state + d) % RandMod
        /\ sys_path' = IF ins /\ Len(sys_path) < MaxPath
                         THEN <<"student">> \o sys_path ELSE sys_path
        /\ IF ok THEN raised' = None /\ pc' = "returned"
                 ELSE raised' = "AssertionError" /\ pc' = "raised"
    /\ last_op' = "body"
    /\ UNCHANGED <<builtins, cwd, previous, connVars, fs, created_files>>
    /\ UNCHANGED <<alarm, conn_closed_earlier, target, prepare_exception, expected_data,
                   data, iotester_data, compared, test_result>>
    /\ UNCHANGED <<tests_run, last_run, timed_out_with_conn, after_timeout, used_channel>>

\* When run_testmethod is left, the test method's frame and its locals are
\* gone; the result keeps the outcome only.
TestCaseDiscarded ==
    /\ target' = None
    /\ prepare_exception' = None
    /\ expected_data' = NoData
    /\ data' = NoData
    /\ iotester_data' = EmptyData
    /\ raised' = None
    /\ compared' = FALSE
    /\ last_run' = NoRun

\* run_testmethod, lines 221-229: the alarm fires while the test method runs;
\* an open connection is closed and TimeoutError raised.
TestTimeout ==
    /\ pc \in {"in_test", "ready", "model_done", "sub_done"}
    /\ alarm
    /\ conn' = IF conn = "open" THEN "closed" ELSE conn
    /\ timed_out_with_conn' = (timed_out_with_conn \/ conn = "open")
    /\ test_result' = "TimeoutError"
    /\ alarm' = FALSE
    /\ pc' = "idle"
    /\ tests_run' = tests_run + 1
    /\ last_op' = "timeout"
    /\ TestCaseDiscarded
    /\ UNCHANGED <<globalVars, remote_builtins, fs, created_files>>
    /\ UNCHANGED <<conn_closed_earlier, after_timeout, used_channel>>

\* A run_testmethod without the handlers of lines 247-250.
RunTestmethodLetsThrough(e, c, closed_earlier) == e

\* run_testmethod, lines 230-250: the exception that leaves it when the test
\* method raised e, with the connection c.
RunTestmethodRaises(e, c, closed_earlier) ==
    IF ExceptionName(e) = "EOFError"
      THEN IF c # "none" /\ closed_earlier
             THEN "GraderConnClosedError"
           ELSE IF c # "none" /\ e \in {"EOFError([Errno 32] Broken pipe)",
                                        "EOFError(stream has been closed)"}
             THEN "GraderUtilsError"
           ELSE e
    ELSE IF ExceptionName(e) \in {"SystemExit", "KeyboardInterrupt"}
      THEN "GraderUtilsError"
    ELSE e

\* ... and whether the connection is closed on the way (line 243).
RunTestmethodCloses(e, c, closed_earlier) ==
    /\ ExceptionName(e) = "EOFError"
    /\ c # "none"
    /\ ~closed_earlier
    /\ e \in {"EOFError([Errno 32] Broken pipe)", "EOFError(stream has been closed)"}

\* run_testmethod, lines 215-252, once the test method has returned or raised.
EndTest ==
    /\ pc \in {"raised", "returned"}
    /\ IF pc = "returned"
         THEN test_result' = "ok" /\ conn' = conn
         ELSE /\ test_result' = RunTestmethodRaises(raised, conn, conn_closed_earlier)
              /\ conn' = IF RunTestmethodCloses(raised, conn, conn_closed_earlier)
                           THEN "closed" ELSE conn
    /\ alarm' = FALSE
    /\ pc' = "idle"
    /\ tests_run' = tests_run + 1
    /\ last_op' = "end"
    /\ TestCaseDiscarded
    /\ UNCHANGED <<globalVars, remote_builtins, fs, created_files>>
    /\ UNCHANGED <<conn_closed_earlier, timed_out_with_conn, after_timeout, used_channel>>

\* restore(clean_up_files) called between test methods, as a TestCase's
\* tearDown does (_save, lines 831-832).
RestoreCall ==
    /\ pc = "idle"
    /\ tests_run > 0
    /\ \E clean_up_files \in BOOLEAN :
        /\ SetGlobals(Restore(Globals, previous, clean_up_files, TRUE))
        /\ last_op' = IF clean_up_files THEN "restore(True)" ELSE "restore(False)"
    /\ UNCHANGED <<previous, testVars>>
    /\ UNCHANGED <<tests_run, last_run, timed_out_with_conn, after_timeout, used_channel>>

-----------------------------------------------------------------------------
(* The grading pipeline: main.run, main.do_everything, the points          *)
(* decorator, PointsTestRunner and the serialization of schemaobjects.     *)
(*                                                                         *)
(* A test module holds the TestCase class Base, with a test method         *)
(* test_points under the points decorator and a test method test_plain     *)
(* without it, and the class Derived(Base), which inherits test_points.    *)
(* One application of the decorator makes one graderutils_points dict      *)
(* (graderunittest.py, lines 66-74); every case that runs the decorated    *)
(* method is handed that same dict at line 78.                             *)

\* The most test groups of a configuration and the most cases run per group.
MaxGroups == 2
MaxCases == 2

\* The test cases unittest loads from a test module.
Cases ==
    { [cls |-> "Base", method |-> "test_points"],
      [cls |-> "Derived", method |-> "test_points"],
      [cls |-> "Base", method |-> "test_plain"] }

\* The dict built by points(5) when the test module is imported.
FreshPoints == [points |-> 0, max_points |-> 5]

\* How unittest ends a case: setUp raised (the test method is never called),
\* or the test method returned, raised AssertionError, or raised otherwise.
CaseOutcomes == {"setUp_error", "success", "fail", "error"}

\* A new PointsTestResult.
EmptyResult == [successes |-> <<>>, failures |-> <<>>, errors |-> <<>>, testsRun |-> 0]

\* The cases of a result list that carry the graderutils_points attribute.
WithPoints(list) == {i \in 1..Len(list) : list[i].attached}

\* PointsTestRunner.handle_points: the dict after set_full_points on the
\* successes, and the suite's (points, max_points).
HandlePoints(res, gp) ==
    LET full   == Cardinality(WithPoints(res.successes))
        others == Cardinality(WithPoints(res.failures)) + Cardinality(WithPoints(res.errors))
    IN  [ gp         |-> IF full > 0 THEN [gp EXCEPT !.points = gp.max_points] ELSE gp,
          points     |-> full * gp.max_points,
          max_points |-> full * gp.max_points + others * gp.max_points ]

\* test_result_as_dict for the cases of one result list with the state added
\* by test_results_as_dicts: get_points reads the case's dict as it is now.
RecordsOf(list, state, gp) ==
    [ i \in 1..Len(list) |->
        [ name      |-> <<list[i].cls, list[i].method>>,
          state     |-> state,
          points    |-> gp.points,
          maxPoints |-> gp.max_points ] ]

\* test_group_result_as_dict: get_points raises AttributeError for a case
\* without the graderutils_points attribute, and list(...) then yields nothing.
TestGroupResultAsDict(res, h) ==
    LET all == res.successes \o res.failures \o res.errors
    IN  [ raised |-> WithPoints(all) # 1..Len(all),
          group  |-> [ points      |-> h.points,
                       maxPoints   |-> h.max_points,
                       testResults |-> RecordsOf(res.successes, "success", h.gp)
                                       \o RecordsOf(res.failures, "fail", h.gp)
                                       \o RecordsOf(res.errors, "error", h.gp),
                       testsRun    |-> res.testsRun ] ]

\* The sum do_everything keeps of a key over the groups it has appended.
RECURSIVE Total(_, _)
Total(groups, key) ==
    IF groups = <<>> THEN 0 ELSE groups[1][key] + Total(Tail(groups), key)

GradeParked ==
    /\ config = 0
    /\ group_index = 0
    /\ graderutils_points = FreshPoints
    /\ result = EmptyResult
    /\ result_groups = <<>>
    /\ grading_data = <<>>
    /\ grade_pc = "parked"
    /\ cases_ran = {}

\* main.run has set grading_data = {} (line 122) and calls do_everything on
\* a configuration without validation tasks and with 1..MaxGroups test groups.
GradeInit ==
    /\ config \in 1..MaxGroups
    /\ group_index = 1
    /\ graderutils_points = FreshPoints
    /\ result = EmptyResult
    /\ result_groups = <<>>
    /\ grading_data = <<>>
    /\ grade_pc = "loading"
    /\ cases_ran = {}

\* run_test_groups, line 65: the group's test module is imported and its
\* tests loaded, or the import raises; the exception leaves do_everything
\* and main.run's handler (lines 136-147) logs a warning: grading_data stays
\* the empty dict of line 122.
LoadGroup ==
    /\ grade_pc = "loading"
    /\ \E loads \in BOOLEAN :
          IF loads
          THEN /\ grade_pc' = "running"
               /\ graderutils_points' = FreshPoints
               /\ result' = EmptyResult
          ELSE /\ grade_pc' = "done"
               /\ UNCHANGED <<graderutils_points, result>>
    /\ UNCHANGED <<config, group_index, result_groups, grading_data, cases_ran>>

\* unittest runs one case of the suite and PointsTestResult files it under
\* successes, failures or errors.  The decorated method's wrapper attaches
\* the dict to the case (line 78) when unittest calls the test method, that
\* is when setUp has not raised.
RunCase ==
    /\ grade_pc = "running"
    /\ result.testsRun < MaxCases
    /\ \E c \in Cases, o \in CaseOutcomes :
          LET tc == [ cls      |-> c.cls,
                      method   |-> c.method,
                      group    |-> group_index,
                      attached |-> (c.method = "test_points" /\ o # "setUp_error") ]
              list == CASE o = "success" -> "successes"
                        [] o = "fail"    -> "failures"
                        [] OTHER         -> "errors"
          IN  /\ \A r \in cases_ran : ~(r.group = group_index /\ r.cls = c.cls /\ r.method = c.method)
              /\ result' = [result EXCEPT ![list] = Append(@, tc), !.testsRun = @ + 1]
              /\ cases_ran' = cases_ran \cup {tc}
    /\ UNCHANGED <<config, group_index, graderutils_points, result_groups, grading_data, grade_pc>>

\* The suite has run: PointsTestRunner.run calls handle_points (line 145),
\* run_test_groups serializes the result (line 69) and yields it, and
\* do_everything appends it (lines 96-99); after the last group
\* do_everything returns and main.run assigns grading_data (line 135).  An
\* exception of the serialization ends as the failed import of LoadGroup does.
FinishGroup ==
    /\ grade_pc = "running"
    /\ LET h == HandlePoints(result, graderutils_points)
           d == TestGroupResultAsDict(result, h)
           groups == Append(result_groups, d.group)
       IN  /\ graderutils_points' = h.gp
           /\ IF d.raised
              THEN /\ grade_pc' = "done"
                   /\ UNCHANGED <<group_index, result_groups, grading_data>>
              ELSE /\ result_groups' = groups
                   /\ IF group_index < config
                      THEN /\ group_index' = group_index + 1
                           /\ grade_pc' = "loading"
                           /\ UNCHANGED grading_data
                      ELSE /\ grading_data' = << [ resultGroups |-> groups,
                                                   points       |-> Total(groups, "points"),
                                                   maxPoints    |-> Total(groups, "maxPoints"),
                                                   testsRun     |-> Total(groups, "testsRun") ] >>
                           /\ grade_pc' = "done"
                           /\ UNCHANGED group_index
    /\ UNCHANGED <<config, result, cases_ran>>

-----------------------------------------------------------------------------
(* The comparisons: what text_test, numbers_test, complete_output_test,    *)
(* return_value_test and random_state_test do with the data of the two     *)
(* runs once neither run has stored an exception.                          *)
(*                                                                         *)
(* An output is a sequence of characters.  A number is held as an integer  *)
(* count of thousandths where the code holds a float.                      *)

\* The markers _strip_string puts in the place of a number (lines 97, 100).
IOTESTER_NUMBER == "[iotester-number]"
IOTESTER_MINUS_CHECK == "[iotester-minus-check]"

\* _get_numbers_from_string, lines 600-606: the matches, from left to right,
\* of  [-+]?(?:(?:\d+\.\d+)|(?:\d+))(?:[Ee][+-]?\d+)?
GetNumbersFromString(string) ==
    LET Digit(i) == i <= Len(string) /\ string[i] \in {"0", "1", "2", "3", "4", "5"}
        Sign(i) == i <= Len(string) /\ string[i] \in {"-", "+"}
        \* the last position of the digits that begin at i; i - 1 without any
        RECURSIVE DigitsEnd(_)
        DigitsEnd(i) == IF Digit(i) THEN DigitsEnd(i + 1) ELSE i - 1
        \* the last position of the match that begins at i; 0 without a match
        MatchEnd(i) ==
            LET d == IF Sign(i) THEN i + 1 ELSE i
                int_end == DigitsEnd(d)
                frac_end == IF int_end < Len(string) /\ string[int_end + 1] = "."
                              THEN DigitsEnd(int_end + 2) ELSE 0
                m == IF frac_end >= int_end + 2 THEN frac_end ELSE int_end
                x == IF m < Len(string) /\ string[m + 1] \in {"e", "E"}
                       THEN (IF Sign(m + 2) THEN m + 3 ELSE m + 2)
                       ELSE 0
            IN  IF int_end < d THEN 0
                ELSE IF x > 0 /\ DigitsEnd(x) >= x THEN DigitsEnd(x)
                ELSE m
        RECURSIVE FindAll(_)
        FindAll(i) ==
            IF i > Len(string) THEN <<>>
            ELSE IF MatchEnd(i) = 0 THEN FindAll(i + 1)
            ELSE <<SubSeq(string, i, MatchEnd(i))>> \o FindAll(MatchEnd(i) + 1)
    IN  FindAll(1)

\* _strip_string, lines 609-644, from the number with index i on.
RECURSIVE StripString(_, _, _, _, _, _, _)
StripString(string, numbers, ignored_characters, strip_numbers, strip_whitespace, minus_check_indexes, i) ==
    LET chars_to_skip == ignored_characters \cup (IF strip_whitespace THEN {" ", "\n"} ELSE {})
        Kept(c) == c \notin chars_to_skip
        \* lines 622-626: the first place where the number stands
        RECURSIVE Search(_)
        Search(s) ==
            IF s + Len(numbers[1]) > Len(string) THEN s
            ELSE IF SubSeq(string, s + 1, s + Len(numbers[1])) = numbers[1] THEN s
            ELSE Search(s + 1)
        marker == IF strip_numbers THEN <<>>
                  ELSE IF i \in minus_check_indexes THEN <<IOTESTER_MINUS_CHECK>>
                  ELSE <<IOTESTER_NUMBER>>
    IN  IF numbers = <<>>
          THEN SelectSeq(string, Kept)
          ELSE SelectSeq(SubSeq(string, 1, Search(0)), Kept)
               \o marker
               \o StripString(SubSeq(string, Search(0) + Len(numbers[1]) + 1, Len(string)),
                              Tail(numbers), ignored_characters, strip_numbers,
                              strip_whitespace, minus_check_indexes, i + 1)

\* str.lower()
Lower(string) ==
    [k \in 1..Len(string) |->
        CASE string[k] = "H" -> "h"
          [] string[k] = "E" -> "e"
          [] OTHER -> string[k]]

\* The value of a sequence of decimal digits.
RECURSIVE DigitsValue(_)
DigitsValue(digits) ==
    IF digits = <<>> THEN 0
    ELSE 10 * DigitsValue(SubSeq(digits, 1, Len(digits) - 1))
         + (CHOOSE v \in 0..5 : <<"0", "1", "2", "3", "4", "5">>[v + 1] = digits[Len(digits)])

\* int(number): ValueError unless the string is a sign and digits.
IntOf(number) ==
    LET signed == number[1] \in {"-", "+"}
        digits == IF signed THEN Tail(number) ELSE number
    IN  [ error |-> \E k \in 1..Len(number) : number[k] \in {".", "e", "E"},
          value |-> IF \E k \in 1..Len(number) : number[k] \in {".", "e", "E"} THEN 0
                    ELSE IF number[1] = "-" THEN 0 - DigitsValue(digits)
                    ELSE DigitsValue(digits) ]

\* What stands before and after the sign c in a string of one such sign at most.
Split(string, c) ==
    LET at == {k \in 1..Len(string) : string[k] = c}
        k == IF at = {} THEN Len(string) + 1 ELSE CHOOSE j \in at : TRUE
    IN  [ found  |-> at # {},
          before |-> SubSeq(string, 1, k - 1),
          after  |-> SubSeq(string, k + 1, Len(string)) ]

\* float(number), in thousandths, for a number of three decimals at most and
\* an exponent that is not negative.
FloatOf(number) ==
    LET unsigned == IF number[1] \in {"-", "+"} THEN Tail(number) ELSE number
        parts == Split(Lower(unsigned), "e")
        mantissa == Split(parts.before, ".")
        thousandths == DigitsValue(mantissa.before) * 1000
                       + DigitsValue(mantissa.after \o SubSeq(<<"0", "0", "0">>, 1, 3 - Len(mantissa.after)))
        exponent == IF parts.found THEN IntOf(parts.after).value ELSE 0
        RECURSIVE Scaled(_, _)
        Scaled(v, e) == IF e <= 0 THEN v ELSE Scaled(10 * v, e - 1)
    IN  IF number[1] = "-" THEN 0 - Scaled(thousandths, exponent)
        ELSE Scaled(thousandths, exponent)

\* An assertAlmostEqual that takes no delta.
AlmostEqualExact(first, second, delta) == first = second

\* unittest's assertAlmostEqual(first, second, delta=delta) does not raise.
AlmostEqual(first, second, delta) ==
    \/ first = second
    \/ (IF first >= second THEN first - second ELSE second - first) <= delta

\* numbers_test, lines 1883-1908: the assertions pass.
NumbersTest(output, expected_output, s, compare_formatting) ==
    LET numbers == GetNumbersFromString(output)
        expected_numbers == GetNumbersFromString(expected_output)
        Pair(number, expected_number) ==
            IF "e" \in {Lower(expected_number)[k] : k \in 1..Len(expected_number)}
              THEN Lower(number) = Lower(expected_number)
            ELSE IF ~Split(expected_number, ".").found
              THEN /\ ~IntOf(number).error
                   /\ AlmostEqual(IntOf(number).value, IntOf(expected_number).value,
                                  s.max_int_delta)
                   /\ (compare_formatting => Len(number) = Len(expected_number))
            ELSE /\ AlmostEqual(FloatOf(number), FloatOf(expected_number), s.max_float_delta)
                 /\ (compare_formatting =>
                       /\ Len(Split(number, ".").before) = Len(Split(expected_number, ".").before)
                       /\ Split(number, ".").found
                       /\ Len(Split(number, ".").after) = Len(Split(expected_number, ".").after))
    IN  /\ Len(numbers) = Len(expected_numbers)
        /\ \A k \in 1..Len(numbers) : Pair(numbers[k], expected_numbers[k])

\* A text_test that first requires both outputs to hold as many numbers.
TextTestCountsNumbers(output, expected_output, s, compare_capitalization) ==
    /\ Len(GetNumbersFromString(output)) = Len(GetNumbersFromString(expected_output))
    /\ LET Kept(c) == c \notin ({" ", "\n"} \cup s.ignored_characters)
           Text(string) == SelectSeq(StripString(string, GetNumbersFromString(string),
                                                 {}, TRUE, FALSE, {}, 0), Kept)
       IN  IF compare_capitalization THEN Text(output) = Text(expected_output)
           ELSE Lower(Text(output)) = Lower(Text(expected_output))

\* text_test, lines 1798-1822: the assertion passes.
TextTest(output, expected_output, s, compare_capitalization) ==
    LET stripped_output ==
            StripString(output, GetNumbersFromString(output), s.ignored_characters,
                        TRUE, TRUE, {}, 0)
        expected_stripped_output ==
            StripString(expected_output, GetNumbersFromString(expected_output),
                        s.ignored_characters, TRUE, TRUE, {}, 0)
    IN  IF compare_capitalization
          THEN stripped_output = expected_stripped_output
          ELSE Lower(stripped_output) = Lower(expected_stripped_output)

\* _whitespace_minus_check_patch, lines 647-654: string1 when it returns.
WhitespaceMinusCheckPatch(string1, string2) ==
    LET Space(string, k) == k >= 1 /\ k <= Len(string) /\ string[k] \in {" ", "\n", "\t"}
        \* re.findall of (\s*MARK\s*): the matches, searched from position i on
        RECURSIVE Back(_, _, _)
        Back(string, k, low) == IF k - 1 >= low /\ Space(string, k - 1)
                                  THEN Back(string, k - 1, low) ELSE k
        RECURSIVE Forth(_, _)
        Forth(string, k) == IF Space(string, k + 1) THEN Forth(string, k + 1) ELSE k
        RECURSIVE FindAll(_, _, _)
        FindAll(string, k, low) ==
            IF k > Len(string) THEN <<>>
            ELSE IF string[k] = IOTESTER_MINUS_CHECK
              THEN <<SubSeq(string, Back(string, k, low), Forth(string, k))>>
                   \o FindAll(string, Forth(string, k) + 1, Forth(string, k) + 1)
            ELSE FindAll(string, k + 1, low)
        match1 == FindAll(string1, 1, 1)
        match2 == FindAll(string2, 1, 1)
        Spaces(m) == Cardinality({k \in 1..Len(m) : m[k] = " "})
        \* str.replace(old, new)
        RECURSIVE Replace(_, _, _)
        Replace(string, old, new) ==
            IF Len(string) < Len(old) THEN string
            ELSE IF SubSeq(string, 1, Len(old)) = old
              THEN new \o Replace(SubSeq(string, Len(old) + 1, Len(string)), old, new)
            ELSE <<string[1]>> \o Replace(Tail(string), old, new)
        RECURSIVE Patched(_, _)
        Patched(string, i) ==
            IF i > Len(match1) THEN string
            ELSE IF Spaces(match2[i]) - Spaces(match1[i]) \in {-1, 0, 1}
              THEN Patched(Replace(string, match1[i], match2[i]), i + 1)
            ELSE Patched(string, i + 1)
    IN  Patched(string1, 1)

\* complete_output_test, lines 2057-2127: text_test and
\* numbers_test(compare_formatting=True) return and the last assertion passes.
CompleteOutputTest(output, expected_output, s, compare_capitalization) ==
    LET numbers == GetNumbersFromString(output)
        expected_numbers == GetNumbersFromString(expected_output)
        minus_check_indexes ==
            {i \in 0..(Len(numbers) - 1) :
                (numbers[i + 1][1] = "-") # (expected_numbers[i + 1][1] = "-")}
        stripped_output ==
            StripString(output, numbers, s.ignored_characters, FALSE, FALSE,
                        minus_check_indexes, 0)
        expected_stripped_output ==
            StripString(expected_output, expected_numbers, s.ignored_characters, FALSE,
                        FALSE, minus_check_indexes, 0)
    IN  /\ TextTest(output, expected_output, s, compare_capitalization)
        /\ NumbersTest(output, expected_output, s, TRUE)
        /\ WhitespaceMinusCheckPatch(Lower(stripped_output), Lower(expected_stripped_output))
              = Lower(expected_stripped_output)

\* A compare_elems that stops at the assertion of line 1993.
CompareElemsByClass(elem1, elem2, s) == elem1.cls = elem2.cls

\* return_value_test's compare_elems, lines 1989-2021: no assertion fails.
\* A value is [cls, kind, v]: the repr of its class, the first of the
\* isinstance tests of lines 1994-2017 it passes, and what it holds.
RECURSIVE CompareElems(_, _, _)
CompareElems(elem1, elem2, s) ==
    /\ elem1.cls = elem2.cls
    /\ CASE elem2.kind \in {"bool", "str"} -> elem1.v = elem2.v
         [] elem2.kind = "int" -> AlmostEqual(elem1.v, elem2.v, s.max_int_delta)
         [] elem2.kind = "float" -> AlmostEqual(elem1.v, elem2.v, s.max_float_delta)
         [] elem2.kind = "list" ->
                /\ Len(elem1.v) = Len(elem2.v)
                /\ \A i \in 1..Len(elem2.v) : CompareElems(elem1.v[i], elem2.v[i], s)
         [] elem2.kind = "set" ->
                /\ Cardinality(elem1.v) = Cardinality(elem2.v)
                /\ elem2.v \ elem1.v = {}
                /\ elem1.v \ elem2.v = {}
         [] elem2.kind = "dict" ->
                /\ Cardinality(DOMAIN elem1.v) = Cardinality(DOMAIN elem2.v)
                /\ \A key \in DOMAIN elem2.v :
                      /\ key \in DOMAIN elem1.v
                      /\ CompareElems(elem1.v[key], elem2.v[key], s)
         [] elem2.kind = "class" -> elem1.v = elem2.v
         [] OTHER -> TRUE

\* _run_program, lines 1340-1342: data["random_state"] for a target tgt whose
\* module binds the generator as style says and leaves it in state st;
\* <<>> stands for None.
RandomStateOf(tgt, style, st) ==
    IF tgt # "prog" /\ style = "import random" THEN <<st>> ELSE <<>>

\* random_state_test, lines 2320-2336: both runs start from the state
\* restore() has put back, draw the same seed from it, and make their draws.
RandomStateTest(in) ==
    LET seeded == SeedState(Randrange(in.random_state).value)
        Left(run) == RandomStateOf(in.target, run.style, (seeded + run.draws) % RandMod)
    IN  Left(in.sub) = Left(in.model)

\* The settings of the IOTester that compares: the defaults (max_int_delta 0,
\* max_float_delta 0.02) with the ignored characters ',' and '.', or
\* max_int_delta 1, max_float_delta 0.001 and no ignored character.
CompareSettings ==
    { [max_int_delta |-> 0, max_float_delta |-> 20, ignored_characters |-> {",", "."}],
      [max_int_delta |-> 1, max_float_delta |-> 1, ignored_characters |-> {}] }

\* The outputs of a run: a text followed by one number at most.
Outputs ==
    { text \o number :
        text \in { <<"H", "i", ",", " ">>, <<"h", "i", " ">>, <<"h", "i", " ", " ">>,
                   <<"h", "i", "\t">>, <<"h", "i", " ", "-", " ">> },
        number \in { <<>>, <<"3">>, <<"4">>, <<"-", "3">>, <<"0", "3">>,
                     <<"3", ".", "1", "4">>, <<"3", ".", "1", "5">>, <<"3", ".", "0">>,
                     <<"0", ".", "0", "0">>, <<"-", "0", ".", "0", "0">>,
                     <<"+", "0", ".", "0", "0">>, <<"3", "e", "1">>, <<"3", "E", "1">> } }

\* The return values of a run.
Values ==
    LET AnInt(n) == [cls |-> "int", kind |-> "int", v |-> n]
    IN  { AnInt(1), AnInt(2), AnInt(3),
          [cls |-> "MyInt", kind |-> "int", v |-> 1],
          [cls |-> "bool", kind |-> "bool", v |-> TRUE],
          [cls |-> "bool", kind |-> "bool", v |-> FALSE],
          [cls |-> "str", kind |-> "str", v |-> "a"],
          [cls |-> "str", kind |-> "str", v |-> "b"],
          [cls |-> "float", kind |-> "float", v |-> 1500],
          [cls |-> "float", kind |-> "float", v |-> 1510],
          [cls |-> "float", kind |-> "float", v |-> 1530],
          [cls |-> "list", kind |-> "list", v |-> <<AnInt(1)>>],
          [cls |-> "list", kind |-> "list", v |-> <<AnInt(2)>>],
          [cls |-> "list", kind |-> "list", v |-> <<AnInt(1), AnInt(3)>>],
          [cls |-> "list", kind |-> "list", v |-> <<AnInt(1), [cls |-> "str", kind |-> "str", v |-> "a"]>>],
          [cls |-> "tuple", kind |-> "list", v |-> <<AnInt(1)>>],
          [cls |-> "set", kind |-> "set", v |-> {1}],
          [cls |-> "set", kind |-> "set", v |-> {2}],
          [cls |-> "set", kind |-> "set", v |-> {1, 2}],
          [cls |-> "dict", kind |-> "dict", v |-> [key \in {"k"} |-> AnInt(1)]],
          [cls |-> "dict", kind |-> "dict", v |-> [key \in {"k"} |-> AnInt(2)]],
          [cls |-> "dict", kind |-> "dict", v |-> [key \in {"j"} |-> AnInt(1)]],
          [cls |-> "dict", kind |-> "dict", v |-> [key \in {"j", "k"} |-> AnInt(1)]],
          [cls |-> "type", kind |-> "class", v |-> "<class 'Point'>"],
          [cls |-> "type", kind |-> "class", v |-> "<class 'Line'>"],
          [cls |-> "NoneType", kind |-> "other", v |-> "None"],
          [cls |-> "Point", kind |-> "other", v |-> "Point(1, 2)"],
          [cls |-> "Point", kind |-> "other", v |-> "Point(3, 4)"],
          [cls |-> "frozenset", kind |-> "other", v |-> "frozenset({1})"],
          [cls |-> "frozenset", kind |-> "other", v |-> "frozenset({2})"] }

\* No comparison has been made.
NoVerdict == [mode |-> None, flag |-> FALSE, passed |-> FALSE]

\* The most spaces on one side of a marker in a stripped output.
MaxSpaces == 2

\* What _strip_string(strip_numbers=False, strip_whitespace=False) leaves of
\* an output whose numbers are all marked for the minus check: a letter
\* before each marker and spaces[2i-1] spaces before, spaces[2i] after the
\* i-th marker.
RECURSIVE StrippedOutput(_)
StrippedOutput(spaces) ==
    IF spaces = <<>> THEN <<>>
    ELSE LET Sp(n) == [k \in 1..n |-> " "]
         IN  <<IF Len(spaces) % 4 = 0 THEN "x" ELSE "y">> \o Sp(spaces[1])
             \o <<IOTESTER_MINUS_CHECK>> \o Sp(spaces[2])
             \o StrippedOutput(SubSeq(spaces, 3, Len(spaces)))

CompareParked ==
    /\ comparison = [kind |-> None]
    /\ verdict = NoVerdict

\* The data of the two runs of a comparison, neither with an exception: the
\* outputs, the return values, what the runs of a random_state_test did
\* (the tested module binds the generator with one of two import statements),
\* or two stripped outputs with one or two minus-check markers.
CompareInit ==
    /\ \/ comparison \in [kind : {"output"}, output : Outputs, expected_output : Outputs,
                          settings : CompareSettings]
       \/ comparison \in [kind : {"value"}, return_value : Values,
                          expected_return_value : Values, settings : CompareSettings]
       \/ comparison \in [kind : {"random"}, target : Targets,
                          random_state : 0..(RandMod - 1),
                          model : [style : {"import random", "from random import randint"},
                                   draws : 0..MaxDraws],
                          sub : [style : {"import random", "from random import randint"},
                                 draws : 0..MaxDraws]]
       \/ \E n \in {2, 4} : \E sp1, sp2 \in [1..n -> 0..MaxSpaces] :
             comparison = [kind |-> "stripped", string1 |-> StrippedOutput(sp1),
                           string2 |-> StrippedOutput(sp2)]
    /\ verdict = NoVerdict

CallTextTest ==
    /\ comparison.kind = "output"
    /\ verdict = NoVerdict
    /\ \E compare_capitalization \in BOOLEAN :
          verdict' = [mode |-> "text_test", flag |-> compare_capitalization,
                      passed |-> TextTest(comparison.output, comparison.expected_output,
                                          comparison.settings, compare_capitalization)]
    /\ UNCHANGED comparison

CallNumbersTest ==
    /\ comparison.kind = "output"
    /\ verdict = NoVerdict
    /\ \E compare_formatting \in BOOLEAN :
          verdict' = [mode |-> "numbers_test", flag |-> compare_formatting,
                      passed |-> NumbersTest(comparison.output, comparison.expected_output,
                                             comparison.settings, compare_formatting)]
    /\ UNCHANGED comparison

CallCompleteOutputTest ==
    /\ comparison.kind = "output"
    /\ verdict = NoVerdict
    /\ \E compare_capitalization \in BOOLEAN :
          verdict' = [mode |-> "complete_output_test", flag |-> compare_capitalization,
                      passed |-> CompleteOutputTest(comparison.output,
                                                    comparison.expected_output,
                                                    comparison.settings,
                                                    compare_capitalization)]
    /\ UNCHANGED comparison

CallReturnValueTest ==
    /\ comparison.kind = "value"
    /\ verdict = NoVerdict
    /\ verdict' = [mode |-> "return_value_test", flag |-> FALSE,
                   passed |-> CompareElems(comparison.return_value,
                                           comparison.expected_return_value,
                                           comparison.settings)]
    /\ UNCHANGED comparison

CallRandomStateTest ==
    /\ comparison.kind = "random"
    /\ verdict = NoVerdict
    /\ verdict' = [mode |-> "random_state_test", flag |-> FALSE,
                   passed |-> RandomStateTest(comparison)]
    /\ UNCHANGED comparison

\* output, expected_output = _whitespace_minus_check_patch(...) and the
\* assertEqual that follows, lines 2116-2127
CallWhitespaceMinusCheckPatch ==
    /\ comparison.kind = "stripped"
    /\ verdict = NoVerdict
    /\ verdict' = [mode |-> "_whitespace_minus_check_patch", flag |-> FALSE,
                   passed |-> WhitespaceMinusCheckPatch(comparison.string1,
                                                        comparison.string2)
                                 = comparison.string2]
    /\ UNCHANGED comparison

-----------------------------------------------------------------------------
(* The standard streams of a run: LimitedBuffer, _captured_output and      *)
(* IOTester._iotester_input                                                *)

\* MAX_OUTPUT_LENGTH, line 73
MAX_OUTPUT_LENGTH == 100000

\* The most inputs a test gives to a run.
MaxInputs == 2

\* The most calls a program makes on its standard streams in one run.
MaxCalls == 3

\* ENTER, line 104
ENTER == "[iotester-enter]"

\* The inputs a test gives: a digit, the empty string, the ENTER constant.
\* A string is a sequence of characters; the constant is one token.
InputLines == {<<"5">>, <<>>, <<ENTER>>}

\* A join that ends every line with a newline.
JoinLinesTerminated(lines) ==
    LET RECURSIVE Cat(_)
        Cat(ls) == IF ls = <<>> THEN <<>> ELSE ls[1] \o <<"\n">> \o Cat(Tail(ls))
    IN  Cat(lines)

\* '\n'.join(str(elem) for elem in inputs), line 1252
RECURSIVE JoinLines(_)
JoinLines(lines) ==
    IF lines = <<>> THEN <<>>
    ELSE IF Len(lines) = 1 THEN lines[1]
    ELSE lines[1] \o <<"\n">> \o JoinLines(Tail(lines))

\* A written string: what it is (the text of a print, the prompt or the echo
\* of an input), the line it shows, and its length.
Written(kind, line, len) == [kind |-> kind, line |-> line, len |-> len]

\* The length of the echo of a line, lines 1189-1210: the markers and the
\* markup around ENTER_STRING, or around the line.
EchoLength(line) == IF line = <<ENTER>> THEN 194 ELSE 238 + Len(line)

\* The buffer after seek(0) and truncate(0), lines 1250-1251: its size, the
\* position of the next write, and the writes it holds.
EmptyBuffer == [size |-> 0, pos |-> 0, log |-> <<>>]

\* A buffer that takes every write.
LimitedBufferWriteUnlimited(buf, string) ==
    [buf |-> [size |-> IF buf.pos + string.len > buf.size
                         THEN buf.pos + string.len ELSE buf.size,
              pos |-> buf.pos + string.len,
              log |-> Append(buf.log, [at |-> buf.pos, string |-> string])],
     raised |-> None]

\* LimitedBuffer.write(string), lines 744-747: the buffer after the call and
\* what the call raised.
LimitedBufferWrite(buf, string) ==
    IF buf.pos + string.len > MAX_OUTPUT_LENGTH
      THEN [buf |-> buf, raised |-> "GraderIOError"]
      ELSE [buf |-> [size |-> IF buf.pos + string.len > buf.size
                                THEN buf.pos + string.len ELSE buf.size,
                     pos |-> buf.pos + string.len,
                     log |-> Append(buf.log, [at |-> buf.pos, string |-> string])],
            raised |-> None]

\* _iotester_input(prompt), lines 1187-1212, with sys.stdin = in and
\* self._out = buf.  The built-in input writes the prompt to sys.stdout and
\* reads a line from sys.stdin, up to the next newline or the end, raising
\* EOFError when nothing is left; the line's echo is written and the line, or
\* "" for ENTER, returned.  result is <<the value returned>> or <<>>.
IotesterInput(in, buf, prompt) ==
    LET shown == LimitedBufferWrite(buf, Written("prompt", prompt, Len(prompt)))
        rest == SubSeq(in.string, in.pos + 1, Len(in.string))
        newlines == {k \in 1..Len(rest) : rest[k] = "\n"}
        nl == IF newlines = {} THEN 0 ELSE CHOOSE k \in newlines : \A o \in newlines : k <= o
        line == IF nl = 0 THEN rest ELSE SubSeq(rest, 1, nl - 1)
        after == [in EXCEPT !.pos = IF nl = 0 THEN Len(in.string) ELSE in.pos + nl]
    IN  IF shown.raised # None
          THEN [stdin |-> in, buf |-> buf, result |-> <<>>, raised |-> shown.raised,
                read |-> FALSE]
        ELSE IF rest = <<>>
          THEN [stdin |-> in, buf |-> shown.buf, result |-> <<>>, raised |-> "EOFError",
                read |-> FALSE]
        ELSE LET echo == LimitedBufferWrite(shown.buf, Written("echo", line, EchoLength(line)))
             IN  [stdin |-> after, buf |-> echo.buf,
                  result |-> IF echo.raised # None THEN <<>>
                             ELSE <<IF line = <<ENTER>> THEN <<>> ELSE line>>,
                  raised |-> echo.raised, read |-> TRUE]

NoIO == [op |-> None, k |-> 0, len |-> 0, prompt |-> <<>>, result |-> <<>>, raised |-> None]

IOParked ==
    /\ inputs = <<>>
    /\ stdin = [string |-> <<>>, pos |-> 0]
    /\ out = EmptyBuffer
    /\ io = NoIO
    /\ input_calls = 0
    /\ lines_read = 0
    /\ io_count = 0

\* Inside "with self._captured_output(inputs) as out", lines 1248-1255: the
\* buffer emptied, sys.stdin holding the joined inputs.
IOInit ==
    /\ inputs \in UNION {[1..n -> InputLines] : n \in 0..MaxInputs}
    /\ stdin = [string |-> JoinLines(inputs), pos |-> 0]
    /\ out = EmptyBuffer
    /\ io = NoIO
    /\ input_calls = 0
    /\ lines_read = 0
    /\ io_count = 0

\* The program prints: sys.stdout.write(string) with a string of some length.
PrintCall ==
    /\ io_count < MaxCalls
    /\ \E len \in {1, MAX_OUTPUT_LENGTH - 239, MAX_OUTPUT_LENGTH, MAX_OUTPUT_LENGTH + 1} :
        LET r == LimitedBufferWrite(out, Written("text", <<>>, len))
        IN  /\ out' = r.buf
            /\ io' = [NoIO EXCEPT !.op = "write", !.len = len, !.raised = r.raised]
    /\ io_count' = io_count + 1
    /\ UNCHANGED <<inputs, stdin, input_calls, lines_read>>

\* The program calls input(prompt), which is _iotester_input.
InputCall ==
    /\ io_count < MaxCalls
    /\ \E prompt \in {<<>>, <<"?">>} :
        LET r == IotesterInput(stdin, out, prompt)
        IN  /\ stdin' = r.stdin
            /\ out' = r.buf
            /\ lines_read' = IF r.read THEN lines_read + 1 ELSE lines_read
            /\ io' = [NoIO EXCEPT !.op = "input", !.k = input_calls + 1, !.prompt = prompt,
                                  !.result = r.result, !.raised = r.raised]
    /\ input_calls' = input_calls + 1
    /\ io_count' = io_count + 1
    /\ UNCHANGED inputs

\* The program rewinds its standard output: sys.stdout.seek(0), which
\* LimitedBuffer inherits from StringIO.
SeekCall ==
    /\ io_count < MaxCalls
    /\ out' = [out EXCEPT !.pos = 0]
    /\ io' = [NoIO EXCEPT !.op = "seek"]
    /\ io_count' = io_count + 1
    /\ UNCHANGED <<inputs, stdin, input_calls, lines_read>>

-----------------------------------------------------------------------------
(* Specifications                                                          *)

PermFrame ==
    UNCHANGED <<settingsVars, importVars, openVars, globalVars, connVars, testVars, historyVars,
                gradeVars, compareVars, ioVars>>

PermNext == VerifyPermissionsCall /\ PermFrame

InitPerm == PermInit /\ SettingsParked /\ ImportParked /\ OpenParked /\ SessionParked /\ GradeParked
        /\ CompareParked /\ IOParked

SpecPerm == InitPerm /\ [][PermNext]_vars

SettingsFrame ==
    UNCHANGED <<permVars, importVars, openVars, globalVars, connVars, testVars, historyVars,
                gradeVars, compareVars, ioVars>>

SettingsNext ==
    \/ IOTesterInit /\ SettingsFrame
    \/ UpdateSettings /\ SettingsFrame

InitSettings == PermParked /\ SettingsInit /\ ImportParked /\ OpenParked /\ SessionParked /\ GradeParked
        /\ CompareParked /\ IOParked

SpecSettings == InitSettings /\ [][SettingsNext]_vars

ImportFrame ==
    UNCHANGED <<permVars, settingsVars, openVars, globalVars, connVars, testVars, historyVars,
                gradeVars, compareVars, ioVars>>

ImportNext == IotesterImportCall /\ ImportFrame

InitImport == PermParked /\ SettingsParked /\ ImportInit /\ OpenParked /\ SessionParked /\ GradeParked
        /\ CompareParked /\ IOParked

SpecImport == InitImport /\ [][ImportNext]_vars

OpenFrame ==
    UNCHANGED <<permVars, settingsVars, importVars, globalVars, connVars, testVars, historyVars,
                gradeVars, compareVars, ioVars>>

OpenNext == IotesterOpenCall /\ OpenFrame

\* An IOTester constructed with one of the open policies.
OpenSettingsInit ==
    /\ settings \in {WithOpenPolicy(p) : p \in OpenPolicies}
    /\ tester = "ready"
    /\ call = NoCall
    /\ call_outcome = None

InitOpen == PermParked /\ OpenSettingsInit /\ ImportParked /\ OpenInit /\ SessionParked /\ GradeParked
        /\ CompareParked /\ IOParked

SpecOpen == InitOpen /\ [][OpenNext]_vars

Init == PermParked /\ SettingsParked /\ ImportParked /\ OpenParked /\ SessionInit /\ GradeParked
        /\ CompareParked /\ IOParked

Frame ==
    UNCHANGED <<permVars, settingsVars, importVars, op, op_result, gradeVars, compareVars,
                ioVars>>

Next ==
    \/ StartTest /\ Frame
    \/ BeginComparison /\ Frame
    \/ RunModel /\ Frame
    \/ RunSubmission /\ Frame
    \/ FinishComparison /\ Frame
    \/ PlainTestBody /\ Frame
    \/ TestTimeout /\ Frame
    \/ EndTest /\ Frame
    \/ RestoreCall /\ Frame

Spec == Init /\ [][Next]_vars

GradeFrame ==
    UNCHANGED <<permVars, settingsVars, importVars, openVars, globalVars, connVars,
                testVars, historyVars, compareVars, ioVars>>

GradeNext ==
    \/ LoadGroup /\ GradeFrame
    \/ RunCase /\ GradeFrame
    \/ FinishGroup /\ GradeFrame

InitGrade ==
    PermParked /\ SettingsParked /\ ImportParked /\ OpenParked /\ SessionParked /\ GradeInit
        /\ CompareParked /\ IOParked

SpecGrade == InitGrade /\ [][GradeNext]_vars

CompareFrame ==
    UNCHANGED <<permVars, settingsVars, importVars, openVars, globalVars, connVars,
                testVars, historyVars, gradeVars, ioVars>>

CompareNext ==
    \/ CallTextTest /\ CompareFrame
    \/ CallNumbersTest /\ CompareFrame
    \/ CallCompleteOutputTest /\ CompareFrame
    \/ CallReturnValueTest /\ CompareFrame
    \/ CallRandomStateTest /\ CompareFrame
    \/ CallWhitespaceMinusCheckPatch /\ CompareFrame

InitCompare ==
    PermParked /\ SettingsParked /\ ImportParked /\ OpenParked /\ SessionParked /\ GradeParked
        /\ CompareInit /\ IOParked

SpecCompare == InitCompare /\ [][CompareNext]_vars

IOFrame ==
    UNCHANGED <<permVars, settingsVars, importVars, openVars, globalVars, connVars,
                testVars, historyVars, gradeVars, compareVars>>

IONext ==
    \/ PrintCall /\ IOFrame
    \/ InputCall /\ IOFrame
    \/ SeekCall /\ IOFrame

InitIO ==
    PermParked /\ SettingsParked /\ ImportParked /\ OpenParked /\ SessionParked /\ GradeParked
        /\ CompareParked /\ IOInit

SpecIO == InitIO /\ [][IONext]_vars

-----------------------------------------------------------------------------
(* Properties of the instrumented import                                   *)

\* The call of the state: a restricted module imports a name that is not a
\* restricted module and not a model module to substitute, and the
\* directories can be listed.
RestrictedImportOfOther ==
    /\ imp_result # NoImportResult
    /\ imp.importer \in RestrictedModules
    /\ Head(imp.name) \notin RestrictedModules
    /\ imp.name \notin imp.used_model_modules
    /\ imp.listdir_ok

PolicyAllows(n, st) == VerifyPermissions(n, st.import_whitelist, st.import_blacklist)

\* C2: when a restricted module imports a top-level name that the import
\* policy does not allow, that is no restricted module and not on the
\* model-substitution list, the instrumented import raises GraderImportError
\* and the real import machinery is not invoked for the name.
C2_ForbiddenImportRaises ==
    (RestrictedImportOfOther /\ ~PolicyAllows(Head(imp.name), imp.settings))
        => (imp_result.kind = "GraderImportError" /\ imp_result.via = None)

-----------------------------------------------------------------------------
(* Properties of the instrumented open                                     *)

\* The call of the state was made by a restricted caller with a mode that the
\* built-in open accepts and that permits writing, on a path that is neither
\* a new file of the caller's own directory nor a file created through the
\* instrumented open earlier in the session.
RestrictedWriteElsewhere ==
    /\ op.opener.name \in RestrictedModules
    /\ op.listdir_ok
    /\ ValidMode(op.mode)
    /\ Writable(op.mode)
    /\ ~(op.path.dir = OpenerDir(op.opener) /\ ~op.existed)
    /\ ~op.was_created

\* C3: through the instrumented open a restricted caller writes no file but a
\* new file of its own directory or a file it created earlier in the session:
\* every other open with a mode that permits writing, for every mode string
\* Python accepts and under every open policy, raises GraderOpenError with the
\* write message and creates or modifies no file.
C3_WriteElsewhereDenied ==
    RestrictedWriteElsewhere
        => /\ op_result.kind = "GraderOpenError"
           /\ op_result.msg = "write"
           /\ (op.path \in fs) = op.existed

-----------------------------------------------------------------------------
(* Properties of _verify_permissions                                       *)

\* The value returned is a boolean, the one the policy prescribes.
C5_Result ==
    allowed # <<>> =>
        /\ allowed[1] \in BOOLEAN
        /\ (whitelist # {}) => (allowed[1] <=> (name \in whitelist \/ STAR \in whitelist))
        /\ (whitelist = {}) => (allowed[1] <=> (name \notin blacklist /\ STAR \notin blacklist))
        /\ (STAR \in whitelist) => allowed[1]
        /\ (STAR \in blacklist) => ~allowed[1]

\* C5: for every name and every policy with exactly one list non-empty,
\* _verify_permissions returns a boolean: with a non-empty whitelist the name
\* is allowed iff the whitelist holds the name or "*"; otherwise it is allowed
\* iff the blacklist holds neither the name nor "*".  The call changes nothing
\* but its result.
C5_VerifyPermissions ==
    /\ []C5_Result
    /\ [][UNCHANGED <<name, whitelist, blacklist, settingsVars, importVars, openVars,
                      globalVars, connVars, testVars, historyVars>>]_vars

\* A blacklist with the wildcard has denied a name it does not list.
C5_Witness ==
    /\ allowed = <<FALSE>>
    /\ whitelist = {}
    /\ STAR \in blacklist
    /\ name \notin blacklist

-----------------------------------------------------------------------------
(* Properties of the settings                                              *)

ExactlyOne(wl, bl) == (wl # {}) # (bl # {})

\* C6: in every state of a constructed IOTester, after any sequence of
\* update_settings calls, returned or raised, exactly one of
\* import_whitelist/import_blacklist is non-empty and exactly one of
\* open_whitelist/open_blacklist; an update that supplies a whitelist leaves
\* the blacklist of the pair empty, and one that supplies a blacklist leaves
\* the whitelist empty.
C6_SettingsInvariant ==
    tester = "ready" =>
        /\ ExactlyOne(settings.import_whitelist, settings.import_blacklist)
        /\ ExactlyOne(settings.open_whitelist, settings.open_blacklist)
        /\ ("import_whitelist" \in call.given /\ call.val.import_whitelist # {})
              => settings.import_blacklist = {}
        /\ ("import_blacklist" \in call.given /\ call.val.import_blacklist # {})
              => settings.import_whitelist = {}
        /\ ("open_whitelist" \in call.given /\ call.val.open_whitelist # {})
              => settings.open_blacklist = {}
        /\ ("open_blacklist" \in call.given /\ call.val.open_blacklist # {})
              => settings.open_whitelist = {}

-----------------------------------------------------------------------------
(* Properties of a session                                                 *)

\* C1: when a submission call exceeds its timeout over an active remote
\* channel, in _run_program or in run_testmethod, the channel is closed and
\* stays closed, and every later test of the session that uses the channel
\* fails with GraderConnClosedError.
C1_ClosedAfterTimeout ==
    /\ timed_out_with_conn => conn = "closed"
    /\ (pc = "idle" /\ after_timeout /\ used_channel /\ test_result # None)
          => test_result = "GraderConnClosedError"

\* restore() was the last thing the step of the state did.
AfterRestore == last_op \in {"restore(True)", "restore(False)", "setup", "run_returned"}

\* C4: after restore() returns, sys.path equals the captured one, no module
\* loaded since the capture is left in sys.modules, the random state equals
\* the captured one and import, open and input are the original built-ins;
\* the same restore() called again changes none of these, nor the
\* created-files set.
C4_RestoreRestores ==
    AfterRestore =>
        /\ sys_path = previous.sys_path
        /\ sys_modules \subseteq previous.sys_modules
        /\ random_state = previous.random_state
        /\ builtins = OriginalBuiltins
        /\ Restore(Globals, previous, last_op \in {"restore(True)", "setup"}, TRUE) = Globals

\* A submission run in the grader's own process, which installed the hooks,
\* loaded the module and drew from the generator, has returned restored.
C4_Witness ==
    /\ last_op = "run_returned"
    /\ last_run.event = "ok"
    /\ ~last_run.model
    /\ last_run.conn = "none"
    /\ builtins = OriginalBuiltins
    /\ sys_modules = previous.sys_modules
    /\ created_files # {}

\* C7: in a two-sided comparison a prepare exception is classified and raised
\* before any program is run; otherwise, if the model run raised, the model's
\* exception is the one classified, with the model-error warning, also when
\* the submission run raised too; the submission's exception is classified
\* only if the model ran cleanly; the outputs are compared only if neither
\* run raised.
C7_ClassificationOrder ==
    /\ (pc # "idle" /\ prepare_exception # None)
          => (last_run = NoRun /\ ~expected_data.ran /\ ~data.ran /\ ~compared)
    /\ (last_op = "setup" /\ prepare_exception # None)
          => (pc = "raised" /\ raised = prepare_exception
              /\ iotester_data.feedback /\ ~iotester_data.warning)
    /\ (last_op = "finish" /\ expected_data.exception # None)
          => (raised = expected_data.exception /\ iotester_data.warning /\ ~compared)
    /\ (last_op = "finish" /\ expected_data.exception = None /\ data.exception # None)
          => (raised = data.exception /\ ~iotester_data.warning /\ ~compared)
    /\ compared
          => (expected_data = Outcome(None) /\ data = Outcome(None))

\* Both runs raised, differently, and the model's exception was classified.
C7_Witness ==
    /\ last_op = "finish"
    /\ expected_data.exception = "ZeroDivisionError"
    /\ data.exception = "GraderImportError"
    /\ raised = "ZeroDivisionError"
    /\ iotester_data.warning

\* The submission run of the comparison has been started.
SubmissionStarted == last_run # NoRun /\ ~last_run.model

\* C8: when the model run of a comparison ends with an exception, no
\* submission run is started for that comparison.
C8_NoSubmissionAfterModelFailure ==
    (expected_data.ran /\ expected_data.exception # None) => ~SubmissionStarted

\* C8, as the code has it: when the model run ends with an exception the
\* submission is run all the same; its outcome is not looked at: the
\* comparison classifies and raises the model's exception and compares
\* nothing.
C8_SubmissionRunsAnyway ==
    /\ (pc = "sub_done") => (SubmissionStarted /\ data.ran)
    /\ (last_op = "finish" /\ expected_data.exception # None)
          => /\ SubmissionStarted
             /\ data.ran
             /\ raised = expected_data.exception
             /\ pc = "raised"
             /\ ~compared

\* The model run timed out, the submission ran cleanly after it, and the
\* comparison raised the model's timeout.
C8_Witness ==
    /\ last_op = "finish"
    /\ expected_data.exception = "GraderTimeoutError"
    /\ data = Outcome(None)
    /\ raised = "GraderTimeoutError"

\* The outcome of the run the state comes from.
LastOutcome == IF last_run.model THEN expected_data ELSE data

\* C9: every exception raised while the target or a hook executes in
\* _run_program, GraderImportError, GraderOpenError, GraderIOError, SystemExit
\* and KeyboardInterrupt among them, is stored in the outcome's exception
\* field; _run_program restores the global state and returns instead of
\* raising.  (Over a closed channel the run ends before the target executes.)
C9_ExceptionsStored ==
    /\ (last_op = "run_raised") => last_run.conn = "closed"
    /\ (last_op = "run_returned" /\ last_run.event \in RunExceptions)
          => /\ LastOutcome.ran
             /\ LastOutcome.exception # None
             /\ last_run.event \in {"GraderImportError", "GraderOpenError", "GraderIOError",
                                    "SystemExit", "KeyboardInterrupt", "ZeroDivisionError"}
                   => LastOutcome.exception = last_run.event
             /\ builtins = OriginalBuiltins
             /\ sys_path = previous.sys_path
             /\ sys_modules \subseteq previous.sys_modules
             /\ cwd = "student"

\* The submission raised SystemExit in the student process; the run returned
\* it as its outcome.
C9_Witness ==
    /\ last_op = "run_returned"
    /\ ~last_run.model
    /\ last_run.stage = "call"
    /\ last_run.event = "SystemExit"
    /\ last_run.conn = "open"
    /\ data = Outcome("SystemExit")
    /\ pc = "sub_done"

PolicyViolations == {"GraderImportError", "GraderOpenError"}

\* C10: whenever a GraderImportError or GraderOpenError is classified, the
\* feedback data has hideTraceback True, whichever run raised it.
C10_AlwaysHidden ==
    (last_op = "finish" /\ raised \in PolicyViolations)
        => iotester_data.hideTraceback = "True"

\* C10, as the code has it: hideTraceback is True when the submission run
\* raised the error, and False, with the model-error warning, when the model
\* run raised it.
C10_HiddenForSubmission ==
    (last_op = "finish" /\ raised \in PolicyViolations)
        => IF expected_data.exception # None
             THEN iotester_data.hideTraceback = "False" /\ iotester_data.warning
             ELSE iotester_data.hideTraceback = "True" /\ ~iotester_data.warning

\* The model run raised GraderOpenError and its traceback is shown.
C10_Witness ==
    /\ last_op = "finish"
    /\ expected_data.exception = "GraderOpenError"
    /\ raised = "GraderOpenError"
    /\ iotester_data.hideTraceback = "False"

-----------------------------------------------------------------------------
(* Properties of the grading pipeline                                      *)

\* The final grading data holds a record of the test case in its group.
HasRecord(tc) ==
    /\ grading_data # <<>>
    /\ tc.group <= Len(grading_data[1].resultGroups)
    /\ \E i \in 1..Len(grading_data[1].resultGroups[tc.group].testResults) :
          grading_data[1].resultGroups[tc.group].testResults[i].name = <<tc.cls, tc.method>>

\* C11: no failure in one test or test group discards the results computed
\* for other tests: whether a test raises or fails at any point (in setUp,
\* before its points data is attached, or without a points decorator) or a
\* later test group cannot be loaded or run, the final grading data holds the
\* records of every test that ran.
C11_ResultsKept ==
    grade_pc = "done" => \A tc \in cases_ran : HasRecord(tc)

RECURSIVE SumOfPoints(_)
SumOfPoints(records) ==
    IF records = <<>> THEN 0 ELSE records[1].points + SumOfPoints(Tail(records))

\* C12: in every serialized group result a record with state success has
\* points equal to its maxPoints, a record with state fail or error has
\* points 0, and the group's points are the sum of its records' points, for
\* any set of test cases, several cases running the same decorated method
\* included.
C12_PointsFollowState ==
    \A g \in 1..Len(result_groups) :
        LET grp == result_groups[g]
        IN  /\ \A i \in 1..Len(grp.testResults) :
                  LET rec == grp.testResults[i]
                  IN  /\ rec.state = "success" => rec.points = rec.maxPoints
                      /\ rec.state \in {"fail", "error"} => rec.points = 0
            /\ grp.points = SumOfPoints(grp.testResults)

-----------------------------------------------------------------------------
(* Further properties of a session                                         *)

\* The exceptions that end the grader process when nothing catches them.
Exits == {"SystemExit", "KeyboardInterrupt"}

\* C13: SystemExit or KeyboardInterrupt raised by tested code in a test
\* method never leaves run_testmethod: _run_program stores it in the data it
\* returns, the classifier raises it again with the feedback set and, for the
\* submission's, the traceback hidden, and run_testmethod turns it into
\* GraderUtilsError.  (Over a closed connection the tested code does not run.)
C13_ExitsConverted ==
    /\ [](test_result \notin Exits)
    /\ []((/\ last_run.event \in Exits
           /\ last_run.conn # "closed"
           /\ last_op \in {"run_returned", "run_raised"})
            => /\ last_op = "run_returned"
               /\ LastOutcome.exception = last_run.event)
    /\ []((pc = "raised" /\ raised \in Exits /\ expected_data.exception = None)
            => /\ data.exception = raised
               /\ iotester_data.feedback
               /\ iotester_data.hideTraceback = "True")
    /\ [][(pc = "raised" /\ raised \in Exits) => test_result' = "GraderUtilsError"]_vars

\* Without a connection a test has ended with GraderUtilsError: its
\* submission raised SystemExit or KeyboardInterrupt.
C13_Witness ==
    /\ pc = "idle"
    /\ conn = "none"
    /\ last_op = "end"
    /\ test_result = "GraderUtilsError"

\* C14: the restore at the end of a model or submission run
\* (clean_up_files=False) deletes no file and removes no path from the
\* created-files set; files are deleted and the set emptied only by
\* restore(clean_up_files=True), which a comparison calls through _setup before
\* its first run; hence a file created by the model run exists when the
\* comparison reads it after the submission run.
C14_FilesKeptUntilSetup ==
    /\ [](/\ Restore(Globals, previous, FALSE, TRUE).fs = fs
          /\ Restore(Globals, previous, FALSE, TRUE).created_files = created_files)
    /\ [][(fs \subseteq fs' /\ created_files \subseteq created_files')
             \/ last_op' \in {"setup", "restore(True)"}]_vars
    /\ [][last_op' = "setup" => (pc = "in_test" /\ created_files' = {}
                                   /\ fs' = fs \ created_files)]_vars
    /\ [](last_op = "run_returned" => last_run.created \subseteq (fs \cap created_files))
    /\ [][(pc = "model_done" /\ pc' = "sub_done") => last_run.created \subseteq fs']_vars

\* Both runs have returned and the file the model run created is there.
C14_Witness ==
    /\ pc = "sub_done"
    /\ last_op = "run_returned"
    /\ Path("model", "out.txt") \in created_files
    /\ Path("model", "out.txt") \in fs
    /\ last_run.created = {Path("student", "out.txt")}

-----------------------------------------------------------------------------
(* Properties of the comparisons                                           *)

\* The criterion for one pair of numbers, the expected one second.
NumbersAgree(number, expected_number, s) ==
    LET Has(string, chars) == \E k \in 1..Len(string) : string[k] \in chars
        Distance(a, b) == IF a >= b THEN a - b ELSE b - a
    IN  IF Has(expected_number, {"e", "E"})
          THEN Lower(number) = Lower(expected_number)
        ELSE IF ~Has(expected_number, {"."})
          THEN /\ ~Has(number, {".", "e", "E"})
               /\ Distance(IntOf(number).value, IntOf(expected_number).value) <= s.max_int_delta
        ELSE Distance(FloatOf(number), FloatOf(expected_number)) <= s.max_float_delta

Essence(string, s, compare_capitalization) ==
    LET Kept(c) == c \notin ({" ", "\n", "\t"} \cup s.ignored_characters)
    IN  IF compare_capitalization THEN SelectSeq(string, Kept)
        ELSE Lower(SelectSeq(string, Kept))

\* C16: text_test passes whenever the two outputs differ only in whitespace,
\* in characters of the ignored-character set and, unless
\* compare_capitalization is set, in letter case.
C16_TextTestIgnores ==
    (/\ verdict.mode = "text_test"
     /\ Essence(comparison.output, comparison.settings, verdict.flag)
           = Essence(comparison.expected_output, comparison.settings, verdict.flag))
        => verdict.passed

\* The strings a and b are the same but for one place, where a has a minus
\* sign that begins a number and b a space before that number.
MinusForSpace(a, b) ==
    /\ Len(a) = Len(b)
    /\ \E k \in 1..Len(a) :
          /\ a[k] = "-"
          /\ b[k] = " "
          /\ \A j \in (1..Len(a)) \ {k} : a[j] = b[j]
          /\ GetNumbersFromString(SubSeq(a, k, Len(a)))
                = << <<"-">> \o SubSeq(a, k + 1, Len(a)) >>

\* C17: complete_output_test passes for two outputs that are the same but
\* for one number that carries a minus sign in one of them only, the values
\* within the delta (0.00 and -0.00), and for one space beside that number.
C17_MinusSignAccepted ==
    (/\ verdict.mode = "complete_output_test"
     /\ \/ MinusForSpace(comparison.output, comparison.expected_output)
        \/ MinusForSpace(comparison.expected_output, comparison.output)
     /\ NumbersTest(comparison.output, comparison.expected_output, comparison.settings, FALSE))
        => verdict.passed

\* Two values match, as the comparison of return values is described.
RECURSIVE ValuesMatch(_, _, _)
ValuesMatch(a, b, s) ==
    LET Distance(x, y) == IF x >= y THEN x - y ELSE y - x
    IN  /\ a.cls = b.cls
        /\ b.kind \in {"bool", "str"} => a.v = b.v
        /\ b.kind = "int" => Distance(a.v, b.v) <= s.max_int_delta
        /\ b.kind = "float" => Distance(a.v, b.v) <= s.max_float_delta
        /\ b.kind = "list" =>
              /\ Len(a.v) = Len(b.v)
              /\ \A i \in 1..Len(b.v) : ValuesMatch(a.v[i], b.v[i], s)
        /\ b.kind = "set" => a.v = b.v
        /\ b.kind = "dict" =>
              /\ DOMAIN a.v = DOMAIN b.v
              /\ \A key \in DOMAIN b.v : ValuesMatch(a.v[key], b.v[key], s)
        /\ b.kind = "class" => a.v = b.v

LeftBy(run) ==
    (SeedState(Randrange(comparison.random_state).value) + run.draws) % RandMod

\* C19: random_state_test fails whenever the state of the generator the
\* submission run leaves differs from the state the model run leaves, as when
\* the submission draws a different number of times, for module-function
\* targets and for prog targets and however the tested module imports the
\* generator.
C19_RandomStatesCompared ==
    (verdict.mode = "random_state_test" /\ LeftBy(comparison.sub) # LeftBy(comparison.model))
        => ~verdict.passed

\* C20: whenever a submission run over an open connection has returned from
\* _run_program with a GraderTimeoutError stored, whichever call of the run
\* timed out (the import of the module, the prog function, the module's
\* function, the class constructor), the connection is closed.
C20_ClosedWhenRunTimesOut ==
    (/\ last_op = "run_returned"
     /\ ~last_run.model
     /\ last_run.conn = "open"
     /\ LastOutcome.exception = "GraderTimeoutError")
        => conn = "closed"

\* C21: while a test method executes under run_testmethod, before and after
\* the program runs of IOTester it makes, the alarm that aborts it when its
\* timeout has elapsed is armed.
C21_TestAlarmArmed ==
    pc \in {"in_test", "ready", "model_done", "sub_done"} => alarm

\* C22: when a submission run over an open connection has returned from
\* _run_program and the connection is still open, the student process's
\* import, open and input are the original built-ins again.
C22_RemoteBuiltinsRestored ==
    (/\ last_op = "run_returned"
     /\ ~last_run.model
     /\ last_run.conn = "open"
     /\ conn = "open")
        => remote_builtins = OriginalBuiltins

\* C23: in every two-sided comparison the seed drawn at the start of the
\* submission run equals the seed drawn at the start of the model run, so
\* that the two generators, seeded alike, are in the same state after the
\* same number of draws.
C23_SameSeed ==
    (last_op \in {"run_returned", "run_raised"} /\ ~last_run.model)
        => /\ last_run.seed = last_run.model_seed
           /\ \A d \in 0..MaxDraws :
                 (SeedState(last_run.seed) + d) % RandMod
                    = (SeedState(last_run.model_seed) + d) % RandMod

\* The submission run of a session's second test has returned; its seed
\* was drawn and, the model having run in the grader's process, the model run
\* drew it before.
C23_Witness ==
    /\ tests_run = 1
    /\ last_op = "run_returned"
    /\ ~last_run.model
    /\ last_run.event = "ok"
    /\ last_run.seed = Randrange(previous.random_state).value
    /\ last_run.model_seed = last_run.seed

\* The number of spaces next to each minus-check marker of a stripped
\* output, marker by marker.
SpacesAround(string) ==
    LET Markers == {k \in 1..Len(string) : string[k] = IOTESTER_MINUS_CHECK}
        Near(k) == {j \in 1..Len(string) :
                      /\ string[j] = " "
                      /\ \A m \in (IF j < k THEN j..k ELSE k..j) :
                            m = k \/ string[m] = " "}
        RECURSIVE Counts(_)
        Counts(ks) ==
            IF ks = {} THEN <<>>
            ELSE LET k == CHOOSE m \in ks : \A o \in ks : m <= o
                 IN  <<Cardinality(Near(k))>> \o Counts(ks \ {k})
    IN  Counts(Markers)

\* C24: for two stripped outputs with the same number of minus-check markers
\* that agree except in the spaces around the markers,
\* _whitespace_minus_check_patch makes the actual string equal to the
\* expected one exactly when, at every marker, the numbers of spaces around
\* it in the two strings differ by at most one.
C24_PatchWithinOne ==
    verdict.mode = "_whitespace_minus_check_patch"
        => (verdict.passed
              <=> \A i \in 1..Len(SpacesAround(comparison.string1)) :
                    SpacesAround(comparison.string2)[i]
                       - SpacesAround(comparison.string1)[i] \in {-1, 0, 1})

\* The digits of a number's integer part and of its fractional part (none
\* for an integer), a sign not counted.
DigitCounts(number) ==
    LET unsigned == IF number[1] \in {"-", "+"} THEN Tail(number) ELSE number
        mantissa == LET e == Split(Lower(unsigned), "e")
                    IN  IF e.found THEN e.before ELSE unsigned
        parts == Split(mantissa, ".")
    IN  IF parts.found THEN <<Len(parts.before), Len(parts.after)>>
                       ELSE <<Len(mantissa), 0>>

\* C25: with compare_formatting set, numbers_test accepts outputs whose
\* numbers pass the comparison of values iff for every pair the integer
\* parts have the same number of digits and so have the fractional parts, a
\* leading sign not counting as a digit.
C25_FormattingByDigits ==
    (/\ verdict.mode = "numbers_test"
     /\ verdict.flag
     /\ NumbersTest(comparison.output, comparison.expected_output, comparison.settings, FALSE))
        => LET numbers == GetNumbersFromString(comparison.output)
               expected_numbers == GetNumbersFromString(comparison.expected_output)
           IN  verdict.passed
                 <=> \A k \in 1..Len(numbers) :
                        DigitCounts(numbers[k]) = DigitCounts(expected_numbers[k])

\* The counts of numbers in the two outputs of a comparison differ.
CountsDiffer ==
    Len(GetNumbersFromString(comparison.output))
        # Len(GetNumbersFromString(comparison.expected_output))

\* C26 as stated: text_test fails when the two outputs hold different counts
\* of numbers.
C26_FailsOnDifferentCounts ==
    (verdict.mode = "text_test" /\ CountsDiffer) => ~verdict.passed

\* What is left of an output once its numbers, then its spaces, newlines and
\* ignored characters are taken out, and the case of its letters unless
\* capitalization is compared.
TextLeft(string, s, compare_capitalization) ==
    LET Kept(c) == c \notin ({" ", "\n"} \cup s.ignored_characters)
        text == SelectSeq(StripString(string, GetNumbersFromString(string), {}, TRUE, FALSE,
                                      {}, 0), Kept)
    IN  IF compare_capitalization THEN text ELSE Lower(text)

\* C26: text_test does not count the numbers: it passes exactly when the two
\* outputs are equal once numbers, spaces, newlines and ignored characters
\* are removed, so also for outputs that hold different counts of numbers.
C26_NumbersNotCounted ==
    verdict.mode = "text_test"
        => (verdict.passed
              <=> TextLeft(comparison.output, comparison.settings, verdict.flag)
                    = TextLeft(comparison.expected_output, comparison.settings, verdict.flag))

\* text_test has passed for two outputs of which one holds a number and the
\* other none.
C26_Witness ==
    /\ verdict.mode = "text_test"
    /\ verdict.passed
    /\ CountsDiffer

-----------------------------------------------------------------------------
(* Reading through the instrumented open                                   *)

\* The call of the state was made by a restricted caller with a read mode.
RestrictedRead ==
    /\ op.opener.name \in RestrictedModules
    /\ op.listdir_ok
    /\ op.mode \in read_modes

\* The open policy of the session permits the name n.
Permitted(n) ==
    IF settings.open_whitelist # {}
      THEN n \in settings.open_whitelist \/ STAR \in settings.open_whitelist
      ELSE n \notin settings.open_blacklist /\ STAR \notin settings.open_blacklist

\* The call has returned a stream on a file outside the caller's directory.
ReadOutside ==
    /\ op_result.kind = "stream"
    /\ op_result.path.dir # OpenerDir(op.opener)

\* C27 as stated: a restricted caller reads a file outside its own directory
\* only if the file lies in the generated-fixtures directory, or lies in the
\* exercise-asset or generated-fixtures directory, where it was found by
\* name, and its name is permitted; every other read-mode open of a path
\* outside its directory ends in GraderOpenError with the read message or in
\* FileNotFoundError.
C27_ReadOnlyFoundFiles ==
    RestrictedRead
        => /\ ReadOutside
                => \/ op_result.path.dir = "generated"
                   \/ /\ op_result.path.dir \in {"exercise", "generated"}
                      /\ Permitted(op_result.path.name)
           /\ (op.path.dir # OpenerDir(op.opener) /\ op_result.kind # "stream")
                => \/ op_result.kind = "GraderOpenError" /\ op_result.msg = "read"
                   \/ op_result.kind = "FileNotFoundError"

\* C27: a restricted caller reads a file outside its own directory only if
\* the file lies in the generated-fixtures directory or its name is permitted
\* by the open policy, in whichever directory it lies; a read-mode open of a
\* path outside its directory opens that very path when the path is in the
\* generated-fixtures directory or its name is permitted (FileNotFoundError
\* when no such file exists), and ends in GraderOpenError with the read
\* message otherwise.
C27_ReadPermittedNames ==
    RestrictedRead
        => /\ ReadOutside
                => (op_result.path.dir = "generated" \/ Permitted(op_result.path.name))
           /\ op.path.dir # OpenerDir(op.opener)
                => IF op.path.dir = "generated" \/ Permitted(op.path.name)
                     THEN IF op.existed
                            THEN op_result.kind = "stream" /\ op_result.path = op.path
                            ELSE op_result.kind = "FileNotFoundError"
                     ELSE op_result.kind = "GraderOpenError" /\ op_result.msg = "read"

\* The submission has opened the model solution for reading, its name not
\* being blacklisted.
C27_Witness ==
    /\ RestrictedRead
    /\ op.opener = [name |-> "solution", dir |-> "student"]
    /\ op.path = Path("model", "solution.py")
    /\ op_result.kind = "stream"
    /\ op_result.path = Path("model", "solution.py")
    /\ ~op_result.writable

-----------------------------------------------------------------------------
(* Properties of the standard streams                                      *)

\* C28: the captured-output buffer never holds more than MAX_OUTPUT_LENGTH
\* characters: a write, by print or by the echo of an input, that would take
\* it past the cap raises GraderIOError and leaves the buffer as it was; any
\* other write is taken.
C28_BufferCapped ==
    /\ [](out.size <= MAX_OUTPUT_LENGTH)
    /\ [][io'.op = "write"
            => IF out.pos + io'.len > MAX_OUTPUT_LENGTH
                 THEN io'.raised = "GraderIOError" /\ out' = out
                 ELSE /\ io'.raised = None
                      /\ out'.pos = out.pos + io'.len
                      /\ out'.size >= out.size
                      /\ Len(out'.log) = Len(out.log) + 1]_vars
    /\ [][(io'.op = "input" /\ io'.raised = "GraderIOError")
            => /\ out'.size = out.size \/ out'.size = out.pos + Len(io'.prompt)
               /\ \A k \in 1..Len(out'.log) :
                     k > Len(out.log) => out'.log[k].string.kind = "prompt"]_vars

\* A print of one character has been refused by the full buffer.
C28_Witness ==
    /\ io.op = "write"
    /\ io.len = 1
    /\ io.raised = "GraderIOError"
    /\ out.size = MAX_OUTPUT_LENGTH
    /\ out.pos = MAX_OUTPUT_LENGTH

\* What the instrumented input returns for a supplied line.
Returned29(line) == IF line = <<ENTER>> THEN <<>> ELSE line

\* The echo records of the captured output.
Echoes(buf) == SelectSeq(buf.log, LAMBDA w : w.string.kind = "echo")

\* C29 as stated: in a run given n input lines the k-th call of the
\* instrumented input, k <= n, returns the k-th line, or the empty string for
\* ENTER, and appends exactly one echo record to the captured output; the
\* (n+1)-th call raises EOFError.
C29_KthCallKthLine ==
    [][io'.op = "input"
         => /\ io'.k <= Len(inputs)
                => /\ io'.raised = None
                   /\ io'.result = <<Returned29(inputs[io'.k])>>
                   /\ Len(Echoes(out')) = Len(Echoes(out)) + 1
            /\ io'.k = Len(inputs) + 1 => io'.raised = "EOFError"]_vars

\* The lines of the inputs that sys.stdin hands out: all of them, but not an
\* empty string in the last place.
Readable ==
    IF inputs # <<>> /\ inputs[Len(inputs)] = <<>> THEN Len(inputs) - 1 ELSE Len(inputs)

\* C29: a call of the instrumented input whose prompt the captured output
\* has room for reads the next unread input line and, when the output has
\* room for the echo, returns it (the empty string for ENTER) and appends
\* exactly one echo record, of that line; without room, for the prompt or
\* for the echo, it raises GraderIOError and appends no echo; when no line is
\* left it raises EOFError.  An empty string given as the last input is not
\* a line that is left.
C29_NextLineOrError ==
    [][io'.op = "input"
         => IF out.pos + Len(io'.prompt) > MAX_OUTPUT_LENGTH
              THEN /\ io'.raised = "GraderIOError"
                   /\ lines_read' = lines_read
                   /\ Echoes(out') = Echoes(out)
            ELSE IF lines_read >= Readable
              THEN /\ io'.raised = "EOFError"
                   /\ lines_read' = lines_read
                   /\ Echoes(out') = Echoes(out)
            ELSE /\ lines_read' = lines_read + 1
                 /\ IF out.pos + Len(io'.prompt) + EchoLength(inputs[lines_read'])
                          > MAX_OUTPUT_LENGTH
                      THEN /\ io'.raised = "GraderIOError"
                           /\ Echoes(out') = Echoes(out)
                      ELSE /\ io'.raised = None
                           /\ io'.result = <<Returned29(inputs[lines_read'])>>
                           /\ Len(Echoes(out')) = Len(Echoes(out)) + 1
                           /\ out'.log[Len(out'.log)].string
                                 = Written("echo", inputs[lines_read'],
                                           EchoLength(inputs[lines_read']))]_vars

\* The second call of the instrumented input has returned the empty string
\* for ENTER, the second of two inputs.
C29_Witness ==
    /\ io.op = "input"
    /\ io.k = 2
    /\ lines_read = 2
    /\ Len(inputs) = 2
    /\ inputs[2] = <<ENTER>>
    /\ io.raised = None
    /\ io.result = << <<>> >>
    /\ Len(Echoes(out)) = 2

\* C30: once the connection to the student process is closed, a call of
\* _run_program returns a data dict instead of raising, and a submission run
\* returns it with GraderConnClosedError stored as data["exception"].
C30_RunReturnsOnClosed ==
    (last_op \in {"run_returned", "run_raised"} /\ last_run.conn = "closed")
        => /\ last_op = "run_returned"
           /\ ~last_run.model => data.exception = "GraderConnClosedError"

====
